---- MODULE Spec2Model ----
(***************************************************************************)
(* flowSentry-forge: the timing analyzer (src/timing-analyzer) and the     *)
(* webhook orchestrator (src/index.ts) as state machines.                  *)
(*                                                                         *)
(* Numbers.  Date.parse yields integer milliseconds.  The instants the     *)
(* environment sends are whole seconds, so (time - previous) / 1000 is an  *)
(* integer and the running totals are integers (seconds).  Averages are    *)
(* quotients of integers; they are kept as fractions in lowest terms, so   *)
(* the arithmetic of computeBottlenecks is exact.                          *)
(***************************************************************************)
EXTENDS Integers, Sequences, FiniteSets, TLC

\* --------------------------------------------------------------------------
\* Bounds of the model
\* --------------------------------------------------------------------------

\* cap on the number of accepted updateTiming calls
MaxEvents == 3

\* number of instants of Calendar the environment draws timestamps from
NumInstants == 3

\* longest rule list of single-action rules handed to analyzeRules
MaxRules == 3

\* most cycles, dead ends or overwrite conflicts in the findings handed to
\* computeRisk
MaxFindings == 4

\* longest transitions list of the workflows handed to analyzeGraph
MaxTransitions == 4

\* --------------------------------------------------------------------------
\* Inputs
\* --------------------------------------------------------------------------

\* Issue ids and state names are keys of plain objects.  The model takes
\* ordinary names; a name that Object.prototype also has ("constructor",
\* "toString", ...) reads as present before it is ever written and is outside
\* the model.
IssueIds == {"I1", "I2"}

StateNames == {"TODO", "REVIEW"}

FromStates == {"TODO"}

ScopeKeys == {"P1", "P2"}

\* The project an issue belongs to (payload.issue.fields.project.id).
ProjectOf(issueId) == IF issueId = "I1" THEN "P1" ELSE "P2"

\* ISO-8601 strings and the value Date.parse gives for each.
Calendar ==
  << [iso |-> "1970-01-01T00:00:00Z", ms |-> 0],
     [iso |-> "1970-01-01T02:00:00Z", ms |-> 7200000],
     [iso |-> "1970-01-01T08:00:00Z", ms |-> 28800000],
     [iso |-> "1970-01-01T05:00:00Z", ms |-> 18000000],
     [iso |-> "1970-01-01T09:00:00Z", ms |-> 32400000] >>

ValidTimestamps == {Calendar[k].iso : k \in 1..NumInstants}

Timestamps == ValidTimestamps \cup {"not-a-date"}

\* Date.parse(ts): isNaN is TRUE for a string that is no instant.
DateParse(ts) ==
  IF \E k \in 1..Len(Calendar) : Calendar[k].iso = ts
  THEN [isNaN |-> FALSE,
        value |-> Calendar[CHOOSE k \in 1..Len(Calendar) : Calendar[k].iso = ts].ms]
  ELSE [isNaN |-> TRUE, value |-> 0]

TimingEvents ==
  [issueId : IssueIds \cup {""},
   fromState : FromStates \cup {""},
   toState : StateNames \cup {""},
   timestamp : Timestamps]

\* --------------------------------------------------------------------------
\* JavaScript values
\* --------------------------------------------------------------------------

\* undefined and null where a string is expected (no name is spelled so)
Undefined == "<undefined>"

Null == "<null>"

\* !v for a string, undefined or null
Falsy(v) == v \in {"", Undefined, Null}

\* v ?? d
Coalesce(v, d) == IF v \in {Undefined, Null} THEN d ELSE v

\* an object that is missing (undefined) where a record is expected
NoValue == [undefined |-> TRUE]

Range(seq) == {seq[k] : k \in 1..Len(seq)}

Max(a, b) == IF a >= b THEN a ELSE b

Min(a, b) == IF a <= b THEN a ELSE b

\* the arrays of a sequence of arrays, one after the other
RECURSIVE Concat(_)
Concat(seqs) == IF seqs = << >> THEN << >> ELSE Head(seqs) \o Concat(Tail(seqs))

\* --------------------------------------------------------------------------
\* Fractions (JavaScript numbers that are quotients of integers)
\* --------------------------------------------------------------------------

RECURSIVE Gcd(_, _)
Gcd(a, b) == IF b = 0 THEN a ELSE Gcd(b, a % b)

\* n / d in lowest terms, d > 0, n >= 0
Frac(n, d) ==
  LET g == Gcd(n, d) IN
  IF g = 0 THEN [num |-> 0, den |-> 1] ELSE [num |-> n \div g, den |-> d \div g]

FracAdd(x, y) == Frac(x.num * y.den + y.num * x.den, x.den * y.den)

FracDivInt(x, n) == Frac(x.num, x.den * n)

\* x * 1.5
FracTimesOneAndHalf(x) == Frac(x.num * 3, x.den * 2)

FracGreater(x, y) == x.num * y.den > y.num * x.den

FracGreaterOrEqual(x, y) == x.num * y.den >= y.num * x.den

RECURSIVE FracSum(_, _)
FracSum(f, S) ==
  IF S = {} THEN Frac(0, 1)
  ELSE LET s == CHOOSE s \in S : TRUE IN FracAdd(f[s], FracSum(f, S \ {s}))

RECURSIVE IntSum(_, _)
IntSum(f, S) ==
  IF S = {} THEN 0
  ELSE LET s == CHOOSE s \in S : TRUE IN f[s] + IntSum(f, S \ {s})

\* --------------------------------------------------------------------------
\* State
\* --------------------------------------------------------------------------

VARIABLES
  lastSeenState,   \* issueId -> [state, timestamp]   (timingAnalyzer.ts:60)
  stateTotals,     \* state -> total seconds          (timingAnalyzer.ts:66)
  stateCounts,     \* state -> number of samples      (timingAnalyzer.ts:69)
  outcome,         \* what the last call returned or threw
  accepted,        \* the last event updateTiming accepted
  timeline,        \* journal: per issue, the accepted (state, time) in order
  invocations,     \* the calls of handleJiraWebhook: position and locals
  store,           \* key -> stored value              (storageAdapter.ts:48)
  call,            \* a call of one of the pure functions: its name and arguments
  result           \* what that call returned or threw

aggregates == <<lastSeenState, stateTotals, stateCounts>>

vars ==
  <<lastSeenState, stateTotals, stateCounts, outcome, accepted, timeline,
    invocations, store, call, result>>

\* The three module-level maps as one value.
Agg(l, t, c) == [lastSeenState |-> l, stateTotals |-> t, stateCounts |-> c]

CurrentAgg == Agg(lastSeenState, stateTotals, stateCounts)

EmptyMap == [x \in {} |-> 0]

NoEvent == [issueId |-> "", fromState |-> "", toState |-> "", timestamp |-> ""]

NoAnalysis == [stateAverages |-> EmptyMap, bottlenecks |-> {}]

Outcome(op, code, message, scope, value) ==
  [op |-> op, code |-> code, message |-> message, scope |-> scope, result |-> value]

\* no pure function has been called
NoCall == [op |-> "none"]

\* the call has not run yet
NotCalled == [code |-> "pending"]

\* --------------------------------------------------------------------------
\* updateTiming
\* --------------------------------------------------------------------------

\* if (!issueId || !fromState || !toState)
MissingFields(event) ==
  Falsy(event.issueId) \/ Falsy(event.fromState) \/ Falsy(event.toState)

\* the division by 1000 forgotten: the duration in milliseconds
DurationMillis(time, previousTimestamp) == time - previousTimestamp

\* (time - previous.timestamp) / 1000
DurationSeconds(time, previousTimestamp) == (time - previousTimestamp) \div 1000

\* the order check left out
OrderNeverInvalid(durationSeconds) == FALSE

\* <= in place of <: an event at the instant of its predecessor is refused
OrderInvalidOrEqual(durationSeconds) == durationSeconds <= 0

\* if (durationSeconds < 0)
OrderInvalid(durationSeconds) == durationSeconds < 0

\* the duration booked on the state the event says it leaves
AccumulateKeyFromEvent(previous, event) == event.fromState

\* the key the duration is accumulated under: previous.state
AccumulateKey(previous, event) == previous.state

\* "=" in place of "+=": the total is the last sample
AddTotalOverwriting(totals, k, durationSeconds) ==
  [s \in DOMAIN totals \cup {k} |-> IF s = k THEN durationSeconds ELSE totals[s]]

\* every sample rounded up to a whole second more
AddTotalAndOne(totals, k, durationSeconds) ==
  [s \in DOMAIN totals \cup {k} |->
     IF s = k
     THEN (IF k \in DOMAIN totals THEN totals[k] ELSE 0) + durationSeconds + 1
     ELSE totals[s]]

\* stateTotals[k] = (stateTotals[k] || 0) + durationSeconds
AddTotal(totals, k, durationSeconds) ==
  [s \in DOMAIN totals \cup {k} |->
     IF s = k
     THEN (IF k \in DOMAIN totals THEN totals[k] ELSE 0) + durationSeconds
     ELSE totals[s]]

\* the "|| 0" forgotten: a state without a count never gets one
AddCountIfPresent(counts, k) ==
  [s \in DOMAIN counts |-> IF s = k THEN counts[k] + 1 ELSE counts[s]]

\* stateCounts[k] = (stateCounts[k] || 0) + 1
AddCount(counts, k) ==
  [s \in DOMAIN counts \cup {k} |->
     IF s = k
     THEN (IF k \in DOMAIN counts THEN counts[k] ELSE 0) + 1
     ELSE counts[s]]

\* the map replaced by one holding the current issue alone
SetLastSeenOnly(last, issueId, toState, time) ==
  [i \in {issueId} |-> [state |-> toState, timestamp |-> time]]

\* lastSeenState[issueId] = { state: toState, timestamp: time }
SetLastSeen(last, issueId, toState, time) ==
  [i \in DOMAIN last \cup {issueId} |->
     IF i = issueId THEN [state |-> toState, timestamp |-> time] ELSE last[i]]

Thrown(agg, code, message) == [agg |-> agg, code |-> code, message |-> message]

Returned(agg) == [agg |-> agg, code |-> "OK", message |-> ""]

\* updateTiming(event) run on the maps agg: the maps afterwards and what the
\* call threw ("OK" when it returned).
UpdateTimingOn(agg, event) ==
  IF MissingFields(event)
  THEN Thrown(agg, "INVALID_TRANSITION_SEQUENCE", "Missing required event fields")
  ELSE
  LET parsed == DateParse(event.timestamp) IN
  IF parsed.isNaN
  THEN Thrown(agg, "INVALID_TRANSITION_SEQUENCE", "Invalid timestamp format")
  ELSE
  LET time == parsed.value
      last == SetLastSeen(agg.lastSeenState, event.issueId, event.toState, time)
  IN
  IF event.issueId \in DOMAIN agg.lastSeenState
  THEN
    LET previous == agg.lastSeenState[event.issueId]
        durationSeconds == DurationSeconds(time, previous.timestamp)
        k == AccumulateKey(previous, event)
    IN
    IF OrderInvalid(durationSeconds)
    THEN Thrown(agg, "INVALID_TRANSITION_SEQUENCE", "Timestamp order invalid")
    ELSE Returned(Agg(last,
                      AddTotal(agg.stateTotals, k, durationSeconds),
                      AddCount(agg.stateCounts, k)))
  ELSE Returned(Agg(last, agg.stateTotals, agg.stateCounts))

\* --------------------------------------------------------------------------
\* computeBottlenecks
\* --------------------------------------------------------------------------

\* stateTotals[state] / stateCounts[state]; a state without a count divides
\* by undefined, which gives NaN (shown here as 0/0).
StateAverage(agg, state) ==
  IF state \in DOMAIN agg.stateCounts
  THEN IF agg.stateCounts[state] = 0
       THEN [num |-> agg.stateTotals[state], den |-> 0]
       ELSE Frac(agg.stateTotals[state], agg.stateCounts[state])
  ELSE [num |-> 0, den |-> 0]

\* totalAverage / stateCount: the mean of the per-state averages
GlobalAverage(agg, stateAverages) ==
  FracDivInt(FracSum(stateAverages, DOMAIN stateAverages),
             Cardinality(DOMAIN stateAverages))

\* >= in place of >
IsBottleneckOrEqual(average, globalAverage) ==
  FracGreaterOrEqual(average, FracTimesOneAndHalf(globalAverage))

\* stateAverages[state] > globalAverage * 1.5
IsBottleneck(average, globalAverage) ==
  FracGreater(average, FracTimesOneAndHalf(globalAverage))

\* "no data" decided on the issues seen, not on the states sampled
NoIssueSeen(agg) == Cardinality(DOMAIN agg.lastSeenState) = 0

\* if (stateCount === 0), stateCount the number of keys of stateTotals
NoTimingData(agg) == Cardinality(DOMAIN agg.stateTotals) = 0

ComputeBottlenecksOn(agg, projectId) ==
  IF projectId = ""
  THEN [code |-> "INSUFFICIENT_DATA", message |-> "projectId is required",
        result |-> NoAnalysis]
  ELSE
  LET stateAverages == [s \in DOMAIN agg.stateTotals |-> StateAverage(agg, s)] IN
  IF NoTimingData(agg)
  THEN [code |-> "INSUFFICIENT_DATA", message |-> "No timing data available",
        result |-> NoAnalysis]
  ELSE
  LET globalAverage == GlobalAverage(agg, stateAverages) IN
  [code |-> "OK", message |-> "",
   result |-> [stateAverages |-> stateAverages,
               bottlenecks |-> {s \in DOMAIN stateAverages :
                                  IsBottleneck(stateAverages[s], globalAverage)}]]

\* --------------------------------------------------------------------------
\* ingestEvent
\* --------------------------------------------------------------------------

\* A raw Jira event; a field the payload does not carry is Undefined.
RawEvent(source, eventType, issueId, projectId, fromString, toString, receivedAt) ==
  [source |-> source,
   eventType |-> eventType,
   payload |-> [issue |-> [id |-> issueId,
                           fields |-> [project |-> [id |-> projectId]]],
                changelog |-> [fromString |-> fromString, toString |-> toString]],
   receivedAt |-> receivedAt]

\* the transitions Jira reports for the issues of the model
TransitionEvents ==
  {RawEvent("jira", "issue_transitioned", i, ProjectOf(i), f, t, ts) :
     i \in IssueIds, f \in FromStates, t \in StateNames, ts \in ValidTimestamps}

SampleEvent ==
  RawEvent("jira", "issue_transitioned", "I1", "P1", "TODO", "REVIEW", Calendar[1].iso)

\* a field update, and events that lack something
OtherEvents ==
  {RawEvent("jira", "issue_updated", i, ProjectOf(i), Undefined, Undefined, Calendar[1].iso) :
     i \in IssueIds}
  \cup {[SampleEvent EXCEPT !.source = "github"],
        [SampleEvent EXCEPT !.receivedAt = "not-a-date"],
        [SampleEvent EXCEPT !.payload.issue.id = Undefined],
        [SampleEvent EXCEPT !.payload.issue.fields.project.id = Undefined],
        [SampleEvent EXCEPT !.payload.changelog.toString = Undefined],
        [SampleEvent EXCEPT !.eventType = "issue_created"]}

RawEvents == TransitionEvents \cup OtherEvents

NoNormalizedEvent ==
  [eventId |-> "", projectId |-> "", issueId |-> "", eventType |-> "",
   fromState |-> Null, toState |-> Null, timestamp |-> ""]

\* `${issueId}:${eventType}:${timestamp}`
generateEventId(issueId, timestamp, eventType) ==
  issueId \o ":" \o eventType \o ":" \o timestamp

\* !isNaN(Date.parse(value))
isValidISODate(value) == ~DateParse(value).isNaN

IngestThrown(code) == [code |-> code, event |-> NoNormalizedEvent]

\* ingestEvent(rawEvent): the normalized event, or the code of the error thrown
IngestEvent(rawEvent) ==
  IF rawEvent.source # "jira" THEN IngestThrown("INVALID_PAYLOAD")
  ELSE IF ~isValidISODate(rawEvent.receivedAt) THEN IngestThrown("INVALID_PAYLOAD")
  ELSE
  LET issueId == rawEvent.payload.issue.id
      projectId == rawEvent.payload.issue.fields.project.id
  IN
  IF Falsy(issueId) \/ Falsy(projectId) THEN IngestThrown("INVALID_PAYLOAD")
  ELSE IF rawEvent.eventType \notin {"issue_transitioned", "issue_updated"}
  THEN IngestThrown("UNSUPPORTED_EVENT_TYPE")
  ELSE
  LET transitioned == rawEvent.eventType = "issue_transitioned"
      normalizedType == IF transitioned THEN "STATUS_CHANGE" ELSE "FIELD_CHANGE"
  IN
  [code |-> "OK",
   event |-> [eventId |-> generateEventId(issueId, rawEvent.receivedAt, normalizedType),
              projectId |-> projectId,
              issueId |-> issueId,
              eventType |-> normalizedType,
              fromState |-> IF transitioned
                            THEN Coalesce(rawEvent.payload.changelog.fromString, Null)
                            ELSE Null,
              toState |-> IF transitioned
                          THEN Coalesce(rawEvent.payload.changelog.toString, Null)
                          ELSE Null,
              timestamp |-> rawEvent.receivedAt]]

\* --------------------------------------------------------------------------
\* resolveWorkflow and the Jira client
\* --------------------------------------------------------------------------

\* a value that is an array, and one that is not
Array(items) == [isArray |-> TRUE, items |-> items]

NotArray == [isArray |-> FALSE, items |-> << >>]

\* typeof v === "string"
IsString(v) == v \notin {Undefined, Null}

RawWorkflow(id, statuses, transitions) ==
  [id |-> id, statuses |-> statuses, transitions |-> transitions]

Status(name) == [name |-> name]

Transition(from, to) == [from |-> from, to |-> to]

\* what the mock client answers
MockWorkflow ==
  RawWorkflow("WF-DEMO-1",
              Array(<<Status("TODO"), Status("IN_REVIEW"), Status("DONE")>>),
              Array(<<Transition("TODO", "IN_REVIEW"), Transition("IN_REVIEW", "DONE")>>))

\* what the Forge client answers when the request succeeds: no transitions
StatusesOnlyWorkflow ==
  RawWorkflow("WF-P1", Array(<<Status("TODO"), Status("DONE")>>), Array(<< >>))

\* a transition into a status the answer does not list
DanglingWorkflow ==
  RawWorkflow("WF-P1",
              Array(<<Status("TODO"), Status("DONE")>>),
              Array(<<Transition("TODO", "IN_REVIEW")>>))

Resolved(value) == [rejected |-> FALSE, value |-> value]

\* the promise of fetchWorkflowForProject is settled with one of these
JiraResponses ==
  {Resolved(MockWorkflow), Resolved(StatusesOnlyWorkflow), Resolved(DanglingWorkflow),
   [rejected |-> TRUE, value |-> RawWorkflow(Undefined, NotArray, NotArray)]}

\* Array.from(new Set(seq)): the first occurrence of each element, in order
RECURSIVE Dedupe(_)
Dedupe(seq) ==
  IF seq = << >> THEN << >>
  ELSE LET init == Dedupe(SubSeq(seq, 1, Len(seq) - 1))
           last == seq[Len(seq)]
       IN IF last \in Range(init) THEN init ELSE Append(init, last)

NoWorkflow == [workflowId |-> "", states |-> << >>, transitions |-> << >>]

ResolveThrown(code) == [code |-> code, workflow |-> NoWorkflow]

\* resolveWorkflow(projectId, jiraClient), the client's promise settled with
\* response.  lastFetchedAt (the wall clock) is read by no later stage.
ResolveWorkflowOn(projectId, response) ==
  IF Falsy(projectId) THEN ResolveThrown("WORKFLOW_NOT_FOUND")
  ELSE IF response.rejected THEN ResolveThrown("API_RATE_LIMITED")
  ELSE
  LET rawWorkflow == response.value
      workflowId == rawWorkflow.id
      statuses == rawWorkflow.statuses
      transitions == rawWorkflow.transitions
  IN
  IF Falsy(workflowId) \/ ~statuses.isArray \/ ~transitions.isArray
  THEN ResolveThrown("WORKFLOW_NOT_FOUND")
  ELSE
  LET names == [k \in 1..Len(statuses.items) |-> statuses.items[k].name]
      states == Dedupe(SelectSeq(names, IsString))
      bothEnds(t) == IsString(t.from) /\ IsString(t.to)
      normalizedTransitions == SelectSeq(transitions.items, bothEnds)
  IN
  IF Len(states) = 0 \/ Len(normalizedTransitions) = 0
  THEN ResolveThrown("WORKFLOW_NOT_FOUND")
  ELSE [code |-> "OK",
        workflow |-> [workflowId |-> workflowId,
                      states |-> states,
                      transitions |-> normalizedTransitions]]

\* --------------------------------------------------------------------------
\* analyzeGraph
\* --------------------------------------------------------------------------

NoGraph ==
  [cycles |-> << >>, deadEnds |-> << >>, maxDepth |-> 0, unreachableStates |-> << >>]

GraphThrown(code) == [code |-> code, result |-> NoGraph]

\* Array.isArray(value): a list is a function on 1..n; an object such as
\* {0: "TODO"} is not
IsList(value) == DOMAIN value = 1..Cardinality(DOMAIN value)

\* Array.isArray(workflow[field]); a missing field is undefined, not a list
HasList(workflow, field) ==
  /\ field \in DOMAIN workflow
  /\ IsList(workflow[field])

\* "!workflow || !Array.isArray(workflow.states) ||
\*  !Array.isArray(workflow.transitions)"
InvalidWorkflow(workflow) ==
  \/ workflow = NoValue
  \/ ~HasList(workflow, "states")
  \/ ~HasList(workflow, "transitions")

\* graph[state] = [] for every state, then graph[t.from].push(t.to) for the
\* transitions whose source is a state
Adjacency(workflow) ==
  [s \in Range(workflow.states) |->
     LET leaves(t) == t.from = s
         out == SelectSeq(workflow.transitions, leaves)
     IN [k \in 1..Len(out) |-> out[k].to]]

LastState(workflow) ==
  IF Len(workflow.states) = 0 THEN Undefined ELSE workflow.states[Len(workflow.states)]

\* workflow.states[0]
StartState(workflow) ==
  IF Len(workflow.states) = 0 THEN Undefined ELSE workflow.states[1]

RECURSIVE DfsReach(_, _, _)
RECURSIVE DfsReachEach(_, _, _, _)

\* dfsReach(state); "for (const next of graph[state])" throws a TypeError
\* when graph[state] is undefined
DfsReach(graph, state, acc) ==
  IF acc.threw \/ state \in acc.visited THEN acc
  ELSE IF state \notin DOMAIN graph THEN [acc EXCEPT !.threw = TRUE]
  ELSE DfsReachEach(graph, graph[state], 1, [acc EXCEPT !.visited = @ \cup {state}])

DfsReachEach(graph, nexts, k, acc) ==
  IF k > Len(nexts) THEN acc
  ELSE DfsReachEach(graph, nexts, k + 1, DfsReach(graph, nexts[k], acc))

\* path.indexOf(node)
IndexOf(path, node) ==
  CHOOSE k \in 1..Len(path) : path[k] = node /\ \A j \in 1..k - 1 : path[j] # node

RECURSIVE DfsCycle(_, _, _, _)
RECURSIVE DfsCycleEach(_, _, _, _, _)

NeverOnStack(node, acc) == FALSE

\* stack.has(node)
OnStack(node, acc) == node \in acc.stack

NeverExplored(node, acc) == FALSE

\* visitedCycle.has(node)
AlreadyExplored(node, acc) == node \in acc.visitedCycle

\* dfsCycle(node, path), on the shared cycles, stack and visitedCycle
DfsCycle(graph, node, path, acc) ==
  IF acc.threw THEN acc
  ELSE IF OnStack(node, acc)
  THEN [acc EXCEPT !.cycles = Append(@, SubSeq(path, IndexOf(path, node), Len(path)))]
  ELSE IF AlreadyExplored(node, acc) THEN acc
  ELSE IF node \notin DOMAIN graph THEN [acc EXCEPT !.threw = TRUE]
  ELSE LET entered == [acc EXCEPT !.visitedCycle = @ \cup {node},
                                  !.stack = @ \cup {node}]
           after == DfsCycleEach(graph, graph[node], 1, path, entered)
       IN IF after.threw THEN after ELSE [after EXCEPT !.stack = @ \ {node}]

DfsCycleEach(graph, nexts, k, path, acc) ==
  IF k > Len(nexts) THEN acc
  ELSE DfsCycleEach(graph, nexts, k + 1, path,
                    DfsCycle(graph, nexts[k], Append(path, nexts[k]), acc))

\* for (const state of workflow.states) dfsCycle(state, [state])
RECURSIVE DfsCycleAll(_, _, _, _)
DfsCycleAll(graph, states, k, acc) ==
  IF k > Len(states) THEN acc
  ELSE DfsCycleAll(graph, states, k + 1, DfsCycle(graph, states[k], <<states[k]>>, acc))

SameDepth(depth) == depth

\* depth + 1
Deeper(depth) == depth + 1

RECURSIVE DfsDepth(_, _, _, _, _)
RECURSIVE DfsDepthEach(_, _, _, _, _, _)

\* dfsDepth(node, depth, seen)
DfsDepth(graph, node, depth, seen, acc) ==
  IF acc.threw THEN acc
  ELSE IF node \notin DOMAIN graph
  THEN [maxDepth |-> Max(acc.maxDepth, depth), threw |-> TRUE]
  ELSE DfsDepthEach(graph, graph[node], 1, depth, seen,
                    [acc EXCEPT !.maxDepth = Max(@, depth)])

DfsDepthEach(graph, nexts, k, depth, seen, acc) ==
  IF k > Len(nexts) THEN acc
  ELSE DfsDepthEach(graph, nexts, k + 1, depth, seen,
                    IF nexts[k] \in seen THEN acc
                    ELSE DfsDepth(graph, nexts[k], Deeper(depth), seen \cup {nexts[k]}, acc))

NeverNoWayOut(graph, s) == FALSE

NoWayOnward(graph, s) == \A k \in 1..Len(graph[s]) : graph[s][k] = s

\* "graph[s].length === 0"
NoWayOut(graph, s) == Len(graph[s]) = 0

\* "!visited.has(s)"
NotVisited(visited, s) == s \notin visited

\* analyzeGraph(workflow): the analysis, or the error thrown
AnalyzeGraph(workflow) ==
  IF InvalidWorkflow(workflow) THEN GraphThrown("INVALID_GRAPH")
  ELSE
  LET graph == Adjacency(workflow)
      startState == StartState(workflow)
      reach == DfsReach(graph, startState, [visited |-> {}, threw |-> FALSE])
  IN
  IF reach.threw THEN GraphThrown("TypeError")
  ELSE
  LET notVisited(s) == NotVisited(reach.visited, s)
      noWayOut(s) == NoWayOut(graph, s)
      found == DfsCycleAll(graph, workflow.states, 1,
                           [cycles |-> << >>, stack |-> {}, visitedCycle |-> {},
                            threw |-> FALSE])
  IN
  IF found.threw THEN GraphThrown("TypeError")
  ELSE
  LET deepest == DfsDepth(graph, startState, 1, {startState},
                          [maxDepth |-> 0, threw |-> FALSE])
  IN
  IF deepest.threw THEN GraphThrown("TypeError")
  ELSE [code |-> "OK",
        result |-> [cycles |-> found.cycles,
                    deadEnds |-> SelectSeq(workflow.states, noWayOut),
                    maxDepth |-> deepest.maxDepth,
                    unreachableStates |-> SelectSeq(workflow.states, notVisited)]]

\* --------------------------------------------------------------------------
\* analyzeRules and the rule provider
\* --------------------------------------------------------------------------

Rule(id, trigger, actions) == [id |-> id, trigger |-> trigger, actions |-> actions]

RuleAction(field, value) == [field |-> field, value |-> value]

\* what the mock provider answers
MockRules ==
  <<Rule("RULE-1", "ISSUE_UPDATED", <<RuleAction("status", "DONE")>>),
    Rule("RULE-2", "ISSUE_UPDATED", <<RuleAction("status", "IN_REVIEW")>>)>>

\* the promise of fetchRules is settled with one of these
RuleResponses ==
  {Resolved(Array(MockRules)), Resolved(NotArray), [rejected |-> TRUE, value |-> NotArray]}

Conflict(ruleA, ruleB, actionA, conflictType) ==
  [ruleA |-> ruleA.id, ruleB |-> ruleB.id, trigger |-> ruleA.trigger,
   field |-> actionA.field, conflictType |-> conflictType]

ActionConflictsEither(ruleA, ruleB, actionA, actionB) ==
  IF actionA.field # actionB.field THEN << >>
  ELSE IF actionA.value # actionB.value
  THEN <<Conflict(ruleA, ruleB, actionA, "OVERWRITE")>>
  ELSE IF actionA.value = "CURRENT" \/ actionB.value = "CURRENT"
  THEN <<Conflict(ruleA, ruleB, actionA, "LOOP")>>
  ELSE << >>

\* the body of the two inner loops for one pair of actions
ActionConflicts(ruleA, ruleB, actionA, actionB) ==
  IF actionA.field # actionB.field THEN << >>
  ELSE (IF actionA.value # actionB.value
        THEN <<Conflict(ruleA, ruleB, actionA, "OVERWRITE")>> ELSE << >>)
       \o (IF actionA.value = "CURRENT" \/ actionB.value = "CURRENT"
           THEN <<Conflict(ruleA, ruleB, actionA, "LOOP")>> ELSE << >>)

\* the body of the two outer loops for one pair of rules
PairConflicts(ruleA, ruleB) ==
  IF ruleA.trigger # ruleB.trigger THEN << >>
  ELSE Concat([a \in 1..Len(ruleA.actions) |->
         Concat([b \in 1..Len(ruleB.actions) |->
           ActionConflicts(ruleA, ruleB, ruleA.actions[a], ruleB.actions[b])])])

AllOrderedPairs(rules) ==
  Concat([i \in 1..Len(rules) |->
    Concat([j \in 1..Len(rules) |->
      IF j # i THEN PairConflicts(rules[i], rules[j]) ELSE << >>])])

\* for i, for j > i
AllConflicts(rules) ==
  Concat([i \in 1..Len(rules) |->
    Concat([j \in 1..Len(rules) |->
      IF j > i THEN PairConflicts(rules[i], rules[j]) ELSE << >>])])

NoConflicts == [conflicts |-> << >>]

RulesThrown(code) == [code |-> code, result |-> NoConflicts]

\* analyzeRules(projectId, ruleProvider), the provider's promise settled with
\* response
AnalyzeRulesOn(projectId, response) ==
  IF Falsy(projectId) THEN RulesThrown("RULE_ACCESS_DENIED")
  ELSE IF response.rejected THEN RulesThrown("RULE_ACCESS_DENIED")
  ELSE IF ~response.value.isArray THEN RulesThrown("UNSUPPORTED_RULE_TYPE")
  ELSE [code |-> "OK", result |-> [conflicts |-> AllConflicts(response.value.items)]]

\* --------------------------------------------------------------------------
\* computeRisk.  Risks are counted in units of 1/10000 before toFixed(2) and
\* in hundredths after it.
\* --------------------------------------------------------------------------

WeightsWithoutTiming == [STRUCTURE |-> 50, TIMING |-> 0, AUTOMATION |-> 20]

\* the weights, in hundredths
WEIGHTS == [STRUCTURE |-> 50, TIMING |-> 30, AUTOMATION |-> 20]

NormalizeUncapped(signals, divisor) == (signals * 10000) \div divisor

\* signals / divisor capped at 1, in units of 1/10000
Normalize(signals, divisor) == Min((signals * 10000) \div divisor, 10000)

\* Number(x.toFixed(2)): x in units of 1/10000, the result in hundredths
ToFixed2(x) == (x + 50) \div 100

RECURSIVE AutomationSignals(_)
AutomationSignals(conflicts) ==
  IF conflicts = << >> THEN 0
  ELSE (IF Head(conflicts).conflictType = "LOOP" THEN 2 ELSE 1)
       + AutomationSignals(Tail(conflicts))

NoRisk ==
  [overallScore |-> 0, breakdown |-> [structure |-> 0, timing |-> 0, automation |-> 0]]

ComputeRisk(graph, timing, automation) ==
  IF graph = NoValue \/ timing = NoValue \/ automation = NoValue
  THEN [code |-> "MISSING_SIGNAL", result |-> NoRisk]
  ELSE
  LET structureSignals ==
        Len(graph.cycles) + Len(graph.deadEnds) + Len(graph.unreachableStates)
        + Max(0, graph.maxDepth - 5)
      structureRisk == Normalize(structureSignals, 10)
      timingSignals == Cardinality(timing.bottlenecks)
      timingRisk == Normalize(timingSignals, 5)
      automationRisk == Normalize(AutomationSignals(automation.conflicts), 5)
      overallScore ==
        (structureRisk * WEIGHTS.STRUCTURE + timingRisk * WEIGHTS.TIMING
         + automationRisk * WEIGHTS.AUTOMATION) \div 100
  IN
  [code |-> "OK",
   result |-> [overallScore |-> ToFixed2(overallScore),
               breakdown |-> [structure |-> ToFixed2(structureRisk),
                              timing |-> ToFixed2(timingRisk),
                              automation |-> ToFixed2(automationRisk)]]]

\* --------------------------------------------------------------------------
\* explainRisk.  A detail is the sentence of its kind with the number and
\* the names it quotes.  The names of the bottlenecks are quoted in the key
\* order of stateTotals, which the model does not keep: they are a set.
\* --------------------------------------------------------------------------

Detail(kind, count, names, states) ==
  [kind |-> kind, count |-> count, names |-> names, states |-> states]

CountAnyType(conflicts, conflictType) == Len(conflicts)

\* automation.conflicts.filter((c) => c.conflictType === conflictType).length
CountType(conflicts, conflictType) ==
  LET ofType(c) == c.conflictType = conflictType IN Len(SelectSeq(conflicts, ofType))

ExplainRisk(riskScore, analyses) ==
  IF riskScore = NoValue \/ analyses = NoValue
  THEN [code |-> "EXPLANATION_MISMATCH", result |-> [summary |-> "", details |-> << >>]]
  ELSE
  LET graph == analyses.graph
      timing == analyses.timing
      automation == analyses.automation
      loopConflicts == CountType(automation.conflicts, "LOOP")
      overwriteConflicts == CountType(automation.conflicts, "OVERWRITE")
      details ==
        (IF Len(graph.cycles) > 0
         THEN <<Detail("cycles", Len(graph.cycles), << >>, {})>> ELSE << >>)
        \o (IF Len(graph.deadEnds) > 0
            THEN <<Detail("deadEnds", 0, graph.deadEnds, {})>> ELSE << >>)
        \o (IF Len(graph.unreachableStates) > 0
            THEN <<Detail("unreachableStates", 0, graph.unreachableStates, {})>>
            ELSE << >>)
        \o (IF graph.maxDepth > 5
            THEN <<Detail("maxDepth", graph.maxDepth, << >>, {})>> ELSE << >>)
        \o (IF Cardinality(timing.bottlenecks) > 0
            THEN <<Detail("bottlenecks", 0, << >>, timing.bottlenecks)>> ELSE << >>)
        \o (IF Len(automation.conflicts) > 0 /\ loopConflicts > 0
            THEN <<Detail("loopConflicts", loopConflicts, << >>, {})>> ELSE << >>)
        \o (IF Len(automation.conflicts) > 0 /\ overwriteConflicts > 0
            THEN <<Detail("overwriteConflicts", overwriteConflicts, << >>, {})>>
            ELSE << >>)
      summary ==
        IF riskScore.overallScore >= 70 THEN "Workflow risk is high"
        ELSE IF riskScore.overallScore >= 40 THEN "Workflow risk is moderate"
        ELSE "Workflow risk is low."
  IN
  [code |-> "OK",
   result |-> [summary |-> summary,
               details |-> IF Len(details) = 0
                           THEN <<Detail("none", 0, << >>, {})>> ELSE details]]

\* --------------------------------------------------------------------------
\* save
\* --------------------------------------------------------------------------

\* the first value saved under a key stays
SaveIfAbsent(kv, key, value) ==
  IF Falsy(key) THEN [code |-> "DATA_CORRUPTED", store |-> kv]
  ELSE [code |-> "OK",
        store |-> [k \in DOMAIN kv \cup {key} |-> IF k \in DOMAIN kv THEN kv[k] ELSE value]]

\* save(key, value) on the store kv
Save(kv, key, value) ==
  IF Falsy(key) THEN [code |-> "DATA_CORRUPTED", store |-> kv]
  ELSE [code |-> "OK",
        store |-> [k \in DOMAIN kv \cup {key} |-> IF k = key THEN value ELSE kv[k]]]

\* `snapshot:${projectId}`
SnapshotKey(projectId) == "snapshot:" \o projectId

\* --------------------------------------------------------------------------
\* handleJiraWebhook.  An invocation runs without interruption from one await
\* to the next: up to the fetch inside resolveWorkflow, from there up to the
\* fetch inside analyzeRules, and from there to its end.
\* --------------------------------------------------------------------------

\* the calls of handleJiraWebhook, in the order they are made
InvocationOrder == <<"w1", "w2", "w3">>

Invocations == Range(InvocationOrder)

\* An invocation: where it stands, its locals, the code computeBottlenecks
\* threw ("OK" when it returned), the error it ended with, and what it saved.
Idle ==
  [pc |-> "idle", projectId |-> "", graphAnalysis |-> NoGraph,
   timingAnalysis |-> NoAnalysis, timingCode |-> "", error |-> "", saved |-> << >>]

\* the invocation rejects with the error; its locals are gone
Failed(inv, code) ==
  [Idle EXCEPT !.pc = "failed", !.projectId = inv.projectId,
               !.timingCode = inv.timingCode, !.error = code]

\* When the promise of an invocation settles its locals are gone: what stays
\* is whether it resolved or rejected and, for one that resolved, the note of
\* what computeBottlenecks had thrown.
Settle(inv) ==
  IF inv.pc = "done" THEN [Idle EXCEPT !.pc = "done", !.timingCode = inv.timingCode]
  ELSE IF inv.pc = "failed" THEN [Idle EXCEPT !.pc = "failed"]
  ELSE inv

\* the catch lets every error through
CatchesNothing(code) == FALSE

\* err instanceof TimingAnalyzerError && err.code === "INSUFFICIENT_DATA"
\* (computeBottlenecks throws TimingAnalyzerError only)
IsExpectedNoData(code) == code = "INSUFFICIENT_DATA"

\* ingestEvent, updateTiming and the call of resolveWorkflow up to its fetch
HandleStart(agg, rawEvent) ==
  LET normalized == IngestEvent(rawEvent)
      normalizedEvent == normalized.event
      inv == [Idle EXCEPT !.projectId = normalizedEvent.projectId]
  IN
  IF normalized.code # "OK"
  THEN [agg |-> agg, inv |-> Failed(Idle, normalized.code), timed |-> NoEvent]
  ELSE IF normalizedEvent.eventType = "STATUS_CHANGE"
  THEN LET event == [issueId |-> normalizedEvent.issueId,
                     fromState |-> normalizedEvent.fromState,
                     toState |-> normalizedEvent.toState,
                     timestamp |-> normalizedEvent.timestamp]
           updated == UpdateTimingOn(agg, event)
       IN IF updated.code # "OK"
          THEN [agg |-> updated.agg, inv |-> Failed(inv, updated.code), timed |-> NoEvent]
          ELSE [agg |-> updated.agg, inv |-> [inv EXCEPT !.pc = "awaitWorkflow"],
                timed |-> event]
  ELSE [agg |-> agg, inv |-> [inv EXCEPT !.pc = "awaitWorkflow"], timed |-> NoEvent]

\* the rest of resolveWorkflow, analyzeGraph, computeBottlenecks inside its
\* try, and the call of analyzeRules up to its fetch
HandleWorkflow(agg, inv, response) ==
  LET resolved == ResolveWorkflowOn(inv.projectId, response) IN
  IF resolved.code # "OK" THEN Failed(inv, resolved.code)
  ELSE
  LET graphAnalysis == AnalyzeGraph(resolved.workflow) IN
  IF graphAnalysis.code # "OK" THEN Failed(inv, graphAnalysis.code)
  ELSE
  LET computed == ComputeBottlenecksOn(agg, inv.projectId)
      entered == [inv EXCEPT !.pc = "awaitRules",
                             !.graphAnalysis = graphAnalysis.result,
                             !.timingCode = computed.code]
  IN
  IF computed.code = "OK" THEN [entered EXCEPT !.timingAnalysis = computed.result]
  ELSE IF IsExpectedNoData(computed.code)
  THEN [entered EXCEPT !.timingAnalysis = [stateAverages |-> EmptyMap, bottlenecks |-> {}]]
  ELSE Failed(entered, computed.code)

\* the rest of analyzeRules, computeRisk, explainRisk and save
HandleRules(kv, inv, response) ==
  LET ruleConflicts == AnalyzeRulesOn(inv.projectId, response) IN
  IF ruleConflicts.code # "OK"
  THEN [store |-> kv, inv |-> Failed(inv, ruleConflicts.code)]
  ELSE
  LET riskScore == ComputeRisk(inv.graphAnalysis, inv.timingAnalysis, ruleConflicts.result) IN
  IF riskScore.code # "OK"
  THEN [store |-> kv, inv |-> Failed(inv, riskScore.code)]
  ELSE
  LET explanation ==
        ExplainRisk(riskScore.result,
                    [graph |-> inv.graphAnalysis, timing |-> inv.timingAnalysis,
                     automation |-> ruleConflicts.result])
  IN
  IF explanation.code # "OK"
  THEN [store |-> kv, inv |-> Failed(inv, explanation.code)]
  ELSE
  LET snapshot == [riskScore |-> riskScore.result, explanation |-> explanation.result]
      saving == Save(kv, SnapshotKey(inv.projectId), snapshot)
  IN
  IF saving.code # "OK"
  THEN [store |-> kv, inv |-> Failed(inv, saving.code)]
  ELSE [store |-> saving.store,
        inv |-> [Idle EXCEPT !.pc = "done", !.projectId = inv.projectId,
                             !.timingCode = inv.timingCode, !.saved = <<snapshot>>]]

\* --------------------------------------------------------------------------
\* The journal of accepted events
\* --------------------------------------------------------------------------

EventCount == IntSum([i \in IssueIds |-> Len(timeline[i])], IssueIds)

Journal(tl, event, time) ==
  [tl EXCEPT ![event.issueId] = Append(@, [state |-> event.toState, time |-> time])]

\* --------------------------------------------------------------------------
\* Actions of the timing analyzer
\* --------------------------------------------------------------------------

\* the state of the modules when they are loaded
InitModules ==
  /\ lastSeenState = [i \in {} |-> [state |-> "", timestamp |-> 0]]
  /\ stateTotals = EmptyMap
  /\ stateCounts = EmptyMap
  /\ outcome = Outcome("none", "OK", "", "", NoAnalysis)
  /\ accepted = NoEvent
  /\ timeline = [i \in IssueIds |-> << >>]
  /\ invocations = [w \in Invocations |-> Idle]
  /\ store = EmptyMap

Init == InitModules /\ call = NoCall /\ result = NotCalled

UpdateTiming(event) ==
  LET r == UpdateTimingOn(CurrentAgg, event) IN
  /\ r.code = "OK" => EventCount < MaxEvents
  /\ lastSeenState' = r.agg.lastSeenState
  /\ stateTotals' = r.agg.stateTotals
  /\ stateCounts' = r.agg.stateCounts
  /\ outcome' = Outcome("updateTiming", r.code, r.message, "", NoAnalysis)
  /\ IF r.code = "OK"
     THEN /\ accepted' = event
          /\ timeline' = Journal(timeline, event, DateParse(event.timestamp).value)
     ELSE UNCHANGED <<accepted, timeline>>
  /\ UNCHANGED <<invocations, store, call, result>>

ComputeBottlenecks(projectId) ==
  LET r == ComputeBottlenecksOn(CurrentAgg, projectId) IN
  /\ outcome' = Outcome("computeBottlenecks", r.code, r.message, projectId, r.result)
  /\ UNCHANGED <<lastSeenState, stateTotals, stateCounts, accepted, timeline>>
  /\ UNCHANGED <<invocations, store, call, result>>

Next ==
  \/ \E event \in TimingEvents : UpdateTiming(event)
  \/ \E projectId \in ScopeKeys \cup {""} : ComputeBottlenecks(projectId)

Spec == Init /\ [][Next]_vars

\* --------------------------------------------------------------------------
\* Actions of the webhook handler
\* --------------------------------------------------------------------------

\* the invocations are called in order
MayStart(w) ==
  \E k \in 1..Len(InvocationOrder) :
    /\ InvocationOrder[k] = w
    /\ \A j \in 1..k - 1 : invocations[InvocationOrder[j]].pc # "idle"

\* handleJiraWebhook(rawEvent) is called and runs to its first await
WebhookReceived(w, rawEvent) ==
  LET r == HandleStart(CurrentAgg, rawEvent) IN
  /\ invocations[w].pc = "idle"
  /\ MayStart(w)
  /\ lastSeenState' = r.agg.lastSeenState
  /\ stateTotals' = r.agg.stateTotals
  /\ stateCounts' = r.agg.stateCounts
  /\ timeline' = IF r.timed = NoEvent THEN timeline
                 ELSE Journal(timeline, r.timed, DateParse(r.timed.timestamp).value)
  /\ invocations' = [invocations EXCEPT ![w] = Settle(r.inv)]
  /\ UNCHANGED <<outcome, accepted, store, call, result>>

\* the fetch of the workflow settles and the invocation runs to its next await
WorkflowFetched(w, response) ==
  /\ invocations[w].pc = "awaitWorkflow"
  /\ invocations' =
       [invocations EXCEPT
          ![w] = Settle(HandleWorkflow(CurrentAgg, invocations[w], response))]
  /\ UNCHANGED <<lastSeenState, stateTotals, stateCounts, outcome, accepted, timeline,
                 store, call, result>>

\* the fetch of the rules settles and the invocation runs to its end
RulesFetched(w, response) ==
  LET r == HandleRules(store, invocations[w], response) IN
  /\ invocations[w].pc = "awaitRules"
  /\ invocations' = [invocations EXCEPT ![w] = Settle(r.inv)]
  /\ store' = r.store
  /\ UNCHANGED <<lastSeenState, stateTotals, stateCounts, outcome, accepted, timeline,
                 call, result>>

NextWebhook ==
  \/ \E w \in Invocations, rawEvent \in RawEvents : WebhookReceived(w, rawEvent)
  \/ \E w \in Invocations, response \in JiraResponses : WorkflowFetched(w, response)
  \/ \E w \in Invocations, response \in RuleResponses : RulesFetched(w, response)

SpecWebhook == Init /\ [][NextWebhook]_vars

\* ==========================================================================
\* Properties
\* ==========================================================================

\* --------------------------------------------------------------------------
\* Dwell intervals, read off the journal alone
\* --------------------------------------------------------------------------

\* <<i, k>>: the interval of issue i between its k-th and (k+1)-th accepted
\* event, spent in the state the k-th event moved it to.
Intervals(issues) ==
  UNION {{<<i, k>> : k \in 1..Len(timeline[i]) - 1} : i \in issues}

IntervalState(ik) == timeline[ik[1]][ik[2]].state

IntervalSeconds(ik) ==
  (timeline[ik[1]][ik[2] + 1].time - timeline[ik[1]][ik[2]].time) \div 1000

IntervalsIn(state, issues) == {ik \in Intervals(issues) : IntervalState(ik) = state}

RECURSIVE SecondsOf(_)
SecondsOf(iks) ==
  IF iks = {} THEN 0
  ELSE LET ik == CHOOSE ik \in iks : TRUE IN IntervalSeconds(ik) + SecondsOf(iks \ {ik})

DwellTotal(state, issues) == SecondsOf(IntervalsIn(state, issues))

DwellCount(state, issues) == Cardinality(IntervalsIn(state, issues))

SampledStates(issues) == {IntervalState(ik) : ik \in Intervals(issues)}

IssuesOf(projectId) == {i \in IssueIds : ProjectOf(i) = projectId}

\* the fraction x equals total / count
IsQuotient(x, total, count) == x.den > 0 /\ x.num * count = total * x.den

\* stateAverages is the table of dwell averages of the given issues
AveragesMatch(stateAverages, issues) ==
  /\ DOMAIN stateAverages = SampledStates(issues)
  /\ \A s \in DOMAIN stateAverages :
       IsQuotient(stateAverages[s], DwellTotal(s, issues), DwellCount(s, issues))

ReturnedAnalysis == outcome.op = "computeBottlenecks" /\ outcome.code = "OK"

\* --------------------------------------------------------------------------
\* C1: whenever computeBottlenecks returns, stateAverages has exactly the
\* states with at least one dwell interval, and for each of them the sum of
\* the elapsed seconds of its intervals divided by their number.
\* --------------------------------------------------------------------------
C1_AveragesAreDwellMeans ==
  ReturnedAnalysis => AveragesMatch(outcome.result.stateAverages, IssueIds)

\* (I1, TODO->REVIEW, t0) then (I1, ->TODO, t0 + 7200 s): REVIEW averages 7200
C1_Witness ==
  /\ ReturnedAnalysis
  /\ Len(timeline["I1"]) = 2 /\ Len(timeline["I2"]) = 0
  /\ timeline["I1"][1].state = "REVIEW"
  /\ timeline["I1"][2].time - timeline["I1"][1].time = 7200000
  /\ DOMAIN outcome.result.stateAverages = {"REVIEW"}
  /\ outcome.result.stateAverages["REVIEW"] = [num |-> 7200, den |-> 1]

\* --------------------------------------------------------------------------
\* C2: a successful updateTiming of issue I with a prior record (sPrev, tPrev)
\* adds t - tPrev seconds to the total of sPrev and 1 to its count, sPrev
\* being the toState of I's previous accepted event whatever the fromState of
\* the new one; it sets I's pointer to (toState, t); every other total, count
\* and pointer stays.  Without a prior record only the pointer is set.
\* --------------------------------------------------------------------------
ValueOr0(f, k) == IF k \in DOMAIN f THEN f[k] ELSE 0

\* the last entry of the journal of an issue
LastEntry(issueId) == timeline[issueId][Len(timeline[issueId])]

C2_EffectOf(e, after) ==
  LET t == DateParse(e.timestamp).value IN
  /\ DOMAIN after.lastSeenState = DOMAIN lastSeenState \cup {e.issueId}
  /\ after.lastSeenState[e.issueId] = [state |-> e.toState, timestamp |-> t]
  /\ \A i \in DOMAIN lastSeenState \ {e.issueId} :
       after.lastSeenState[i] = lastSeenState[i]
  /\ IF Len(timeline[e.issueId]) > 0
     THEN LET sPrev == LastEntry(e.issueId).state
              tPrev == LastEntry(e.issueId).time
          IN
          /\ DOMAIN after.stateTotals = DOMAIN stateTotals \cup {sPrev}
          /\ DOMAIN after.stateCounts = DOMAIN stateCounts \cup {sPrev}
          /\ after.stateTotals[sPrev] = ValueOr0(stateTotals, sPrev) + (t - tPrev) \div 1000
          /\ after.stateCounts[sPrev] = ValueOr0(stateCounts, sPrev) + 1
          /\ \A s \in DOMAIN stateTotals \ {sPrev} : after.stateTotals[s] = stateTotals[s]
          /\ \A s \in DOMAIN stateCounts \ {sPrev} : after.stateCounts[s] = stateCounts[s]
     ELSE after.stateTotals = stateTotals /\ after.stateCounts = stateCounts

C2_UpdateEffect ==
  \A e \in TimingEvents :
    LET r == UpdateTimingOn(CurrentAgg, e) IN r.code = "OK" => C2_EffectOf(e, r.agg)

\* an accepted event whose fromState is not the state the issue was in
C2_Witness ==
  /\ outcome.op = "updateTiming" /\ outcome.code = "OK"
  /\ Len(timeline[accepted.issueId]) = 2
  /\ timeline[accepted.issueId][1].state # accepted.fromState
  /\ timeline[accepted.issueId][1].state \in DOMAIN stateTotals
  /\ stateTotals[timeline[accepted.issueId][1].state] > 0

\* --------------------------------------------------------------------------
\* C3: updateTiming throws INVALID_TRANSITION_SEQUENCE when issueId,
\* fromState or toState is empty, when the timestamp does not parse, or when
\* it is earlier than the issue's last accepted timestamp; a call that throws
\* leaves lastSeenState, stateTotals and stateCounts as they were.
\* --------------------------------------------------------------------------
Unparsable(ts) == \A k \in 1..Len(Calendar) : Calendar[k].iso # ts

Regression(e) ==
  /\ e.issueId \in IssueIds
  /\ Len(timeline[e.issueId]) > 0
  /\ ~Unparsable(e.timestamp)
  /\ DateParse(e.timestamp).value < LastEntry(e.issueId).time

C3_MustFail(e) ==
  \/ e.issueId = "" \/ e.fromState = "" \/ e.toState = ""
  \/ Unparsable(e.timestamp)
  \/ Regression(e)

C3_FailureLeavesState ==
  \A e \in TimingEvents :
    LET r == UpdateTimingOn(CurrentAgg, e) IN
    /\ C3_MustFail(e) => r.code = "INVALID_TRANSITION_SEQUENCE"
    /\ r.code # "OK" => r.agg = CurrentAgg

\* a regression was refused while the aggregates already held a sample
C3_Witness ==
  /\ outcome.op = "updateTiming"
  /\ outcome.code = "INVALID_TRANSITION_SEQUENCE"
  /\ outcome.message = "Timestamp order invalid"
  /\ DOMAIN stateCounts # {}

\* --------------------------------------------------------------------------
\* C4: an issue's lastTimestamp is at least every timestamp accepted for it
\* and never decreases, whatever the calls; an event whose timestamp equals
\* the issue's last one is accepted and records a sample of zero seconds.
\* --------------------------------------------------------------------------
C4_LastIsLatest ==
  \A i \in IssueIds :
    /\ i \in DOMAIN lastSeenState <=> Len(timeline[i]) > 0
    /\ \A k \in 1..Len(timeline[i]) : lastSeenState[i].timestamp >= timeline[i][k].time
    /\ Len(timeline[i]) > 0 => lastSeenState[i].timestamp = LastEntry(i).time

\* the timestamps an issue's pointer has taken, in order, never go down
C4_JournalAscends ==
  \A i \in IssueIds :
    \A k \in 1..Len(timeline[i]) - 1 : timeline[i][k + 1].time >= timeline[i][k].time

C4_EqualAccepted(e) ==
  (/\ ~C3_MustFail(e)
   /\ Len(timeline[e.issueId]) > 0
   /\ DateParse(e.timestamp).value = lastSeenState[e.issueId].timestamp)
  => LET r == UpdateTimingOn(CurrentAgg, e)
         s == lastSeenState[e.issueId].state
     IN /\ r.code = "OK"
        /\ r.agg.stateCounts[s] = ValueOr0(stateCounts, s) + 1
        /\ r.agg.stateTotals[s] = ValueOr0(stateTotals, s)

C4_TimestampsNeverDecrease ==
  /\ C4_LastIsLatest
  /\ C4_JournalAscends
  /\ \A e \in TimingEvents : C4_EqualAccepted(e)

\* an event with the timestamp of its predecessor was accepted
C4_Witness ==
  /\ outcome.op = "updateTiming" /\ outcome.code = "OK"
  /\ \E i \in IssueIds :
       /\ Len(timeline[i]) >= 2
       /\ timeline[i][Len(timeline[i])].time = timeline[i][Len(timeline[i]) - 1].time
       /\ stateTotals[timeline[i][Len(timeline[i]) - 1].state] = 0
       /\ stateCounts[timeline[i][Len(timeline[i]) - 1].state] = 1

\* --------------------------------------------------------------------------
\* C5: the aggregates are kept per project: what computeBottlenecks(Q)
\* returns is decided by the transitions of the issues of project Q alone.
\* --------------------------------------------------------------------------
C5_ScopedToProject ==
  (outcome.op = "computeBottlenecks" /\ outcome.scope \in ScopeKeys)
  => /\ outcome.code = "OK" <=> SampledStates(IssuesOf(outcome.scope)) # {}
     /\ outcome.code = "OK" =>
          AveragesMatch(outcome.result.stateAverages, IssuesOf(outcome.scope))

\* --------------------------------------------------------------------------
\* C6: computeBottlenecks throws INSUFFICIENT_DATA when the scope key is empty
\* or no state has a sample (before any updateTiming, and after events that
\* are each the first of their issue), and only then; thrown or returned, it
\* leaves lastSeenState, stateTotals and stateCounts as they were.
\* --------------------------------------------------------------------------
C6_InsufficientData ==
  [][outcome'.op = "computeBottlenecks" =>
       /\ UNCHANGED aggregates
       /\ outcome'.code = "INSUFFICIENT_DATA"
            <=> (outcome'.scope = "" \/ SampledStates(IssueIds) = {})
       /\ outcome'.code \in {"INSUFFICIENT_DATA", "OK"}]_vars

\* both issues had a first event, and no state has a sample yet
C6_Witness ==
  /\ outcome.op = "computeBottlenecks"
  /\ outcome.scope # ""
  /\ outcome.code = "INSUFFICIENT_DATA"
  /\ DOMAIN lastSeenState = IssueIds

\* --------------------------------------------------------------------------
\* C7: a state is a bottleneck exactly when its average is strictly greater
\* than 1.5 times the unweighted mean of the per-state averages.
\* With T the totals, C the counts and n the number of sampled states:
\*   T[s]/C[s] > 1.5 * (SUM_i T[i]/C[i]) / n
\*   <=>  2 * n * T[s] * PROD_{j # s} C[j]  >  3 * SUM_i T[i] * PROD_{j # i} C[j]
\* --------------------------------------------------------------------------
RECURSIVE CountProduct(_)
CountProduct(S) ==
  IF S = {} THEN 1
  ELSE LET s == CHOOSE s \in S : TRUE IN DwellCount(s, IssueIds) * CountProduct(S \ {s})

Scaled(s) == DwellTotal(s, IssueIds) * CountProduct(SampledStates(IssueIds) \ {s})

RECURSIVE ScaledSum(_)
ScaledSum(S) ==
  IF S = {} THEN 0
  ELSE LET s == CHOOSE s \in S : TRUE IN Scaled(s) + ScaledSum(S \ {s})

C7_Lhs(s) == 2 * Cardinality(SampledStates(IssueIds)) * Scaled(s)

C7_Rhs == 3 * ScaledSum(SampledStates(IssueIds))

C8_Commute(e1, e2) ==
  LET a == UpdateTimingOn(CurrentAgg, e1)
      ab == UpdateTimingOn(a.agg, e2)
      b == UpdateTimingOn(CurrentAgg, e2)
      ba == UpdateTimingOn(b.agg, e1)
  IN /\ a.code = ba.code /\ a.message = ba.message
     /\ b.code = ab.code /\ b.message = ab.message
     /\ ab.agg = ba.agg

EventsOf(issueId) == {e \in TimingEvents : e.issueId = issueId}

\* The maps change only when updateTiming accepts an event, so every value
\* they take is seen in the initial state or right after an accepted event.
MapsFresh == outcome.op # "computeBottlenecks" /\ outcome.code = "OK"

C9_AtomicAggregates ==
  /\ DOMAIN stateTotals = DOMAIN stateCounts
  /\ DOMAIN stateTotals = SampledStates(IssueIds)
  /\ \A s \in DOMAIN stateCounts :
       /\ stateCounts[s] >= 1
       /\ stateCounts[s] = DwellCount(s, IssueIds)
       /\ stateTotals[s] = DwellTotal(s, IssueIds)
  /\ \A p \in ScopeKeys :
       LET seen == ComputeBottlenecksOn(CurrentAgg, p) IN
       seen.code = "OK" =>
         /\ DOMAIN seen.result.stateAverages = DOMAIN stateCounts
         /\ \A s \in DOMAIN seen.result.stateAverages :
              IsQuotient(seen.result.stateAverages[s], stateTotals[s], stateCounts[s])
  /\ \A w \in Invocations :
       \A s \in DOMAIN invocations[w].timingAnalysis.stateAverages :
         invocations[w].timingAnalysis.stateAverages[s].den > 0

InFlight(w) == invocations[w].pc \in {"awaitWorkflow", "awaitRules"}

\* three invocations overlap; the one that has called computeBottlenecks saw
\* a state with two samples, one of them from an invocation that began later
C9_Witness ==
  /\ \A w \in Invocations : InFlight(w)
  /\ invocations["w1"].pc = "awaitRules"
  /\ invocations["w1"].timingCode = "OK"
  /\ \E s \in DOMAIN stateCounts :
       /\ stateCounts[s] = 2
       /\ stateTotals[s] > 0
       /\ s \in DOMAIN invocations["w1"].timingAnalysis.stateAverages
       /\ IsQuotient(invocations["w1"].timingAnalysis.stateAverages[s], stateTotals[s], 2)

\* --------------------------------------------------------------------------
\* C10: in handleJiraWebhook an INSUFFICIENT_DATA thrown by computeBottlenecks
\* is replaced by {stateAverages: {}, bottlenecks: []} and the invocation goes
\* on through computeRisk, explainRisk and save; an error thrown by any other
\* stage rejects the invocation with that error, and an invocation that
\* rejects saves no snapshot.
\* --------------------------------------------------------------------------

\* the invocation that receives rawEvent: ingestEvent and updateTiming
C10_AtStart(rawEvent) ==
  LET normalized == IngestEvent(rawEvent)
      next == HandleStart(CurrentAgg, rawEvent)
      event == [issueId |-> normalized.event.issueId,
                fromState |-> normalized.event.fromState,
                toState |-> normalized.event.toState,
                timestamp |-> normalized.event.timestamp]
  IN
  IF normalized.code # "OK"
  THEN next.inv.pc = "failed" /\ next.inv.error = normalized.code /\ next.agg = CurrentAgg
  ELSE IF normalized.event.eventType = "STATUS_CHANGE"
          /\ UpdateTimingOn(CurrentAgg, event).code # "OK"
  THEN /\ next.inv.pc = "failed"
       /\ next.inv.error = UpdateTimingOn(CurrentAgg, event).code
  ELSE next.inv.pc = "awaitWorkflow" /\ next.inv.error = ""

\* invocation w when its workflow fetch settles with response:
\* resolveWorkflow, analyzeGraph and computeBottlenecks
C10_AfterWorkflow(w, response) ==
  LET inv == invocations[w]
      resolved == ResolveWorkflowOn(inv.projectId, response)
      graphAnalysis == AnalyzeGraph(resolved.workflow)
      computed == ComputeBottlenecksOn(CurrentAgg, inv.projectId)
      next == HandleWorkflow(CurrentAgg, inv, response)
  IN
  IF resolved.code # "OK"
  THEN next.pc = "failed" /\ next.error = resolved.code
  ELSE IF graphAnalysis.code # "OK"
  THEN next.pc = "failed" /\ next.error = graphAnalysis.code
  ELSE /\ next.pc = "awaitRules" /\ next.error = ""
       /\ next.graphAnalysis = graphAnalysis.result
       /\ next.timingCode = computed.code
       /\ computed.code \in {"OK", "INSUFFICIENT_DATA"}
       /\ computed.code = "OK" => next.timingAnalysis = computed.result
       /\ computed.code = "INSUFFICIENT_DATA" =>
            /\ DOMAIN next.timingAnalysis.stateAverages = {}
            /\ next.timingAnalysis.bottlenecks = {}

\* invocation w when its rule fetch settles with response: analyzeRules,
\* computeRisk, explainRisk and save
C10_AfterRules(w, response) ==
  LET inv == invocations[w]
      ruleConflicts == AnalyzeRulesOn(inv.projectId, response)
      next == HandleRules(store, inv, response)
      key == SnapshotKey(inv.projectId)
  IN
  IF ruleConflicts.code # "OK"
  THEN /\ next.inv.pc = "failed" /\ next.inv.error = ruleConflicts.code
       /\ next.inv.saved = << >>
       /\ next.store = store
  ELSE /\ next.inv.pc = "done" /\ next.inv.error = ""
       /\ DOMAIN next.store = DOMAIN store \cup {key}
       /\ \A k \in DOMAIN store \ {key} : next.store[k] = store[k]
       /\ next.inv.saved = <<next.store[key]>>
       /\ next.store[key].riskScore =
            ComputeRisk(inv.graphAnalysis, inv.timingAnalysis, ruleConflicts.result).result
       /\ next.store[key].explanation =
            ExplainRisk(next.store[key].riskScore,
                        [graph |-> inv.graphAnalysis, timing |-> inv.timingAnalysis,
                         automation |-> ruleConflicts.result]).result
       /\ inv.timingCode = "INSUFFICIENT_DATA" =>
            /\ next.store[key].riskScore.breakdown.timing = 0
            /\ \A k \in 1..Len(next.store[key].explanation.details) :
                 next.store[key].explanation.details[k].kind # "bottlenecks"

InvocationsAt(pc) == {w \in Invocations : invocations[w].pc = pc}

C10_NoDataIsRecoverable ==
  /\ InvocationsAt("idle") # {} => \A rawEvent \in RawEvents : C10_AtStart(rawEvent)
  /\ \A w \in InvocationsAt("awaitWorkflow") :
       \A response \in JiraResponses : C10_AfterWorkflow(w, response)
  /\ \A w \in InvocationsAt("awaitRules") :
       \A response \in RuleResponses : C10_AfterRules(w, response)
  \* a snapshot in the store was saved by an invocation that resolved
  /\ Cardinality(DOMAIN store) <= Cardinality(InvocationsAt("done"))
  /\ InvocationsAt("done") # {} => DOMAIN store # {}
  /\ \A w \in Invocations : invocations[w].pc \in {"awaitRules", "done"} =>
       invocations[w].timingCode \in {"OK", "INSUFFICIENT_DATA"}

\* one invocation met INSUFFICIENT_DATA and resolved, its snapshot (timing
\* risk 0) being the only one in the store; another one rejected
C10_Witness ==
  /\ \E w \in Invocations :
       invocations[w].pc = "done" /\ invocations[w].timingCode = "INSUFFICIENT_DATA"
  /\ \E w \in Invocations : invocations[w].pc = "failed"
  /\ Cardinality(InvocationsAt("done")) = 1
  /\ \E key \in DOMAIN store :
       /\ DOMAIN store = {key}
       /\ store[key].riskScore.breakdown.timing = 0
       /\ store[key].explanation.details # << >>


\* --------------------------------------------------------------------------
\* analyzeGraph called directly
\* --------------------------------------------------------------------------

\* the sequences over a set, up to a length
SeqsUpTo(set, n) == UNION {[1..k -> set] : k \in 0..n}

\* the workflows drawn: no state, or one to three states with "A" the entry,
\* and up to MaxTransitions transitions between the names "A", "B" and "C"; a
\* name that the states list does not hold is undeclared in the workflow
DrawnWorkflows ==
  LET names == {"A", "B", "C"}
      stateLists == {<< >>, <<"A">>, <<"A", "B">>, <<"A", "B", "C">>}
      transitions == {Transition(from, to) : from \in names, to \in names}
  IN {[workflowId |-> "W", states |-> states, transitions |-> list] :
        states \in stateLists, list \in SeqsUpTo(transitions, MaxTransitions)}

\* six states in a row
ChainWorkflow ==
  LET states == <<"S1", "S2", "S3", "S4", "S5", "S6">>
  IN [workflowId |-> "W",
      states |-> states,
      transitions |-> [k \in 1..Len(states) - 1 |->
                         Transition(states[k], states[k + 1])]]

\* an object that is not a list
NotAList(value) == [k \in {0} |-> value]

\* workflows with states or transitions missing or not a list, and no workflow
MalformedWorkflows ==
  {NoValue,
   [workflowId |-> "W", transitions |-> << >>],
   [workflowId |-> "W", states |-> <<"A">>],
   [workflowId |-> "W", states |-> NotAList("A"), transitions |-> << >>],
   [workflowId |-> "W", states |-> <<"A">>,
    transitions |-> NotAList(Transition("A", "A"))]}

Workflows == DrawnWorkflows \cup {ChainWorkflow} \cup MalformedWorkflows

GraphCall(workflow) == [op |-> "analyzeGraph", workflow |-> workflow]

InitGraph ==
  /\ InitModules
  /\ call \in {GraphCall(workflow) : workflow \in Workflows}
  /\ result = NotCalled

\* the call runs
AnalyzeGraphCalled ==
  /\ call.op = "analyzeGraph"
  /\ result = NotCalled
  /\ result' = AnalyzeGraph(call.workflow)
  /\ UNCHANGED <<lastSeenState, stateTotals, stateCounts, outcome, accepted, timeline,
                 invocations, store, call>>

SpecGraph == InitGraph /\ [][AnalyzeGraphCalled]_vars

\* analyzeGraph has been called and has returned or thrown
GraphDone == call.op = "analyzeGraph" /\ result # NotCalled

\* analyzeGraph has returned its findings
GraphReturned == GraphDone /\ result.code = "OK"

\* the workflow has a states list and a transitions list
WellFormed == ~InvalidWorkflow(call.workflow)

\* C11: analyzeGraph fails with INVALID_GRAPH when the states list is empty, as
\* it does when the workflow, its states or its transitions are missing or
\* not a list.
C11_EmptyStatesInvalid ==
  (GraphDone /\ (~WellFormed \/ Len(call.workflow.states) = 0))
    => result.code = "INVALID_GRAPH"

\* the workflow without the transitions that leave a state it does not declare
WithoutUndeclaredSources(workflow) ==
  LET declared(t) == t.from \in Range(workflow.states)
  IN [workflow EXCEPT !.transitions = SelectSeq(@, declared)]

\* a transition leaves a state the workflow does not declare
UndeclaredSource(workflow) ==
  \E k \in 1..Len(workflow.transitions) :
     workflow.transitions[k].from \notin Range(workflow.states)

\* a transition enters a state the workflow does not declare
UndeclaredTarget(workflow) ==
  \E k \in 1..Len(workflow.transitions) :
     workflow.transitions[k].to \notin Range(workflow.states)

\* C12: analyzeGraph never fails on partial data: for a non-empty states list
\* and any transitions list, with sources or targets that are not declared
\* states, it returns findings; and the findings are those of the workflow
\* without the transitions whose source is undeclared.
C12_NeverFailsOnPartialData ==
  (GraphDone /\ WellFormed /\ Len(call.workflow.states) > 0)
    => /\ result.code = "OK"
       /\ result = AnalyzeGraph(WithoutUndeclaredSources(call.workflow))

\* the transitions of the workflow as pairs of states
Edges(workflow) ==
  {<<workflow.transitions[k].from, workflow.transitions[k].to>> :
     k \in 1..Len(workflow.transitions)}

\* the pairs joined by a path of one or more of the edges
RECURSIVE Paths(_)
Paths(edges) ==
  LET joined == {<<pq[1][1], pq[2][2]>> :
                   pq \in {x \in edges \X edges : x[1][2] = x[2][1]}}
  IN IF joined \subseteq edges THEN edges ELSE Paths(edges \cup joined)

\* some state is joined to itself by a path of one or more transitions
HasDirectedCycle(workflow) ==
  \E pair \in Paths(Edges(workflow)) : pair[1] = pair[2]

\* the workflow has states, and its transitions join declared states only
Closed(workflow) ==
  /\ Len(workflow.states) > 0
  /\ ~UndeclaredSource(workflow)
  /\ ~UndeclaredTarget(workflow)

\* C13: for a workflow whose transitions reference declared states only,
\* analyzeGraph returns, and its cycles list is non-empty exactly when the
\* graph has a directed cycle, a self-loop included: a single state without a
\* self-loop gives no cycle, and A -> B -> A gives at least one cycle, no dead
\* end and no unreachable state.
C13_CyclesIffDirectedCycle ==
  (GraphDone /\ WellFormed /\ Closed(call.workflow))
    => /\ result.code = "OK"
       /\ result.result.cycles # << >> <=> HasDirectedCycle(call.workflow)
       /\ (Len(call.workflow.states) = 1
            /\ Transition(call.workflow.states[1], call.workflow.states[1])
                 \notin Range(call.workflow.transitions))
           => result.result.cycles = << >>
       /\ (call.workflow.states = <<"A", "B">>
            /\ Range(call.workflow.transitions)
                 = {Transition("A", "B"), Transition("B", "A")})
           => /\ Len(result.result.cycles) >= 1
              /\ result.result.deadEnds = << >>
              /\ result.result.unreachableStates = << >>

C13_Witness ==
  /\ GraphReturned
  /\ call.workflow.states = <<"A", "B">>
  /\ call.workflow.transitions = <<Transition("A", "B"), Transition("B", "A")>>
  /\ result.result.cycles # << >>

\* the states of the workflow that lie on a directed cycle
OnDirectedCycle(workflow) ==
  {s \in Range(workflow.states) :
     <<s, s>> \in Paths(Edges(WithoutUndeclaredSources(workflow)))}

ClosedPath(workflow, cycle) ==
  /\ Len(cycle) >= 2
  /\ cycle[1] = cycle[Len(cycle)]
  /\ \A k \in 1..Len(cycle) - 1 : <<cycle[k], cycle[k + 1]>> \in Edges(workflow)

\* no transition is listed twice
NoRepeatedTransition(workflow) ==
  \A j, k \in 1..Len(workflow.transitions) :
     workflow.transitions[j] = workflow.transitions[k] => j = k

RECURSIVE SimplePaths(_, _)
SimplePaths(paths, edges) ==
  LET longer == {Append(pe[1], pe[2][2]) :
                   pe \in {x \in paths \X edges :
                             /\ x[2][1] = x[1][Len(x[1])]
                             /\ x[2][2] \notin Range(x[1])}}
  IN IF longer \subseteq paths THEN paths ELSE SimplePaths(paths \cup longer, edges)

\* the number of states on the longest simple path from the entry state
LongestSimplePath(workflow) ==
  LET paths == SimplePaths({<<workflow.states[1]>>},
                           Edges(WithoutUndeclaredSources(workflow)))
  IN CHOOSE n \in {Len(path) : path \in paths} : \A path \in paths : Len(path) <= n

\* the states a path of zero or more transitions joins the entry state to
ReachableStates(workflow) ==
  {workflow.states[1]}
    \cup {pair[2] : pair \in {x \in Paths(Edges(WithoutUndeclaredSources(workflow))) :
                                x[1] = workflow.states[1]}}

\* C15: maxDepth is the number of states on the longest simple path from the
\* entry state states[0], the entry counted: 1 for a single state, 6 for a
\* chain of six, and always between 1 and the number of states reachable from
\* the entry.
C15_MaxDepthIsLongestSimplePath ==
  GraphReturned
    => /\ result.result.maxDepth = LongestSimplePath(call.workflow)
       /\ result.result.maxDepth >= 1
       /\ result.result.maxDepth <= Cardinality(ReachableStates(call.workflow))
       /\ Len(call.workflow.states) = 1 => result.result.maxDepth = 1
       /\ call.workflow = ChainWorkflow => result.result.maxDepth = 6

\* the chain of six has been analysed
C15_Witness ==
  /\ GraphReturned
  /\ call.workflow = ChainWorkflow
  /\ result.result.maxDepth = 6

\* the list holds no element twice
NoRepeats(list) == \A j, k \in 1..Len(list) : list[j] = list[k] => j = k

\* C16: unreachableStates holds exactly the declared states that no path of
\* transitions joins the entry state states[0] to; the entry is never in it,
\* and the reachable and the unreachable states partition the declared ones.
C16_UnreachableFromEntry ==
  GraphReturned
    => LET declared == Range(call.workflow.states)
           reachable == ReachableStates(call.workflow)
           unreachable == Range(result.result.unreachableStates)
       IN /\ unreachable = declared \ reachable
          /\ call.workflow.states[1] \notin unreachable
          /\ reachable \cap unreachable = {}
          /\ reachable \cup unreachable = declared
          /\ NoRepeats(result.result.unreachableStates)

C16_Witness ==
  /\ GraphReturned
  /\ call.workflow.states = <<"A", "B", "C">>
  /\ call.workflow.transitions = <<Transition("A", "B"), Transition("C", "A")>>
  /\ result.result.unreachableStates = <<"C">>

\* C17: deadEnds holds exactly the declared states that no transition leaves:
\* the entry state when it is terminal, never a state whose only transition
\* is a self-loop; a single state without a self-loop gives deadEnds = [state].
C17_DeadEndsHaveNoWayOut ==
  GraphReturned
    => LET leaves(s) == {k \in 1..Len(call.workflow.transitions) :
                           call.workflow.transitions[k].from = s}
           deadEnds == result.result.deadEnds
       IN /\ Range(deadEnds) = {s \in Range(call.workflow.states) : leaves(s) = {}}
          /\ NoRepeats(deadEnds)
          /\ (Len(call.workflow.states) = 1 /\ leaves(call.workflow.states[1]) = {})
              => deadEnds = <<call.workflow.states[1]>>

\* the entry state is terminal and the other state has only a self-loop
C17_Witness ==
  /\ GraphReturned
  /\ call.workflow.states = <<"A", "B">>
  /\ call.workflow.transitions = <<Transition("B", "B")>>
  /\ result.result.deadEnds = <<"A">>

\* --------------------------------------------------------------------------
\* analyzeRules called directly
\* --------------------------------------------------------------------------

\* the rule lists drawn: up to MaxRules rules with at most one action each,
\* and pairs of rules with two actions each; a rule's id names its place in
\* the list
DrawnRuleLists ==
  LET triggers == {"ISSUE_UPDATED", "ISSUE_CREATED"}
      actions == {RuleAction(field, value) :
                    field \in {"status", "assignee"},
                    value \in {"DONE", "OPEN", "CURRENT"}}
      rules(lists) == [trigger : triggers, actions : lists]
      numbered(list) ==
        [k \in 1..Len(list) |-> Rule("RULE-" \o ToString(k), list[k].trigger, list[k].actions)]
  IN {numbered(list) : list \in SeqsUpTo(rules(SeqsUpTo(actions, 1)), MaxRules)}
       \cup {numbered(list) : list \in [1..2 -> rules([1..2 -> actions])]}

\* the promise of fetchRules is settled with a rule list, with something that
\* is not a list, or is rejected
DrawnRuleResponses ==
  {Resolved(Array(rules)) : rules \in DrawnRuleLists} \cup RuleResponses

RulesCall(projectId, response) ==
  [op |-> "analyzeRules", projectId |-> projectId, response |-> response]

InitRules ==
  /\ InitModules
  /\ call \in {RulesCall(projectId, response) :
                 projectId \in {"P1"}, response \in DrawnRuleResponses}
  /\ result = NotCalled

\* the call runs, the fetch included
AnalyzeRulesCalled ==
  /\ call.op = "analyzeRules"
  /\ result = NotCalled
  /\ result' = AnalyzeRulesOn(call.projectId, call.response)
  /\ UNCHANGED <<lastSeenState, stateTotals, stateCounts, outcome, accepted, timeline,
                 invocations, store, call>>

SpecRules == InitRules /\ [][AnalyzeRulesCalled]_vars

\* analyzeRules has returned its report
RulesReturned ==
  call.op = "analyzeRules" /\ result # NotCalled /\ result.code = "OK"

\* the rules the provider answered with
FetchedRules == call.response.value.items

\* the conflicts reported between the rule at place i as ruleA and the rule at
\* place j as ruleB
ConflictsOf(i, j) ==
  LET between(c) == c.ruleA = FetchedRules[i].id /\ c.ruleB = FetchedRules[j].id
  IN SelectSeq(result.result.conflicts, between)

\* the pairs of actions of the two rules that write the same field
SameFieldPairs(ruleA, ruleB) ==
  {ab \in (1..Len(ruleA.actions)) \X (1..Len(ruleB.actions)) :
     ruleA.actions[ab[1]].field = ruleB.actions[ab[2]].field}

\* of these, the pairs whose values differ
DifferingPairs(ruleA, ruleB) ==
  {ab \in SameFieldPairs(ruleA, ruleB) :
     ruleA.actions[ab[1]].value # ruleB.actions[ab[2]].value}

\* and the pairs with a value that is the sentinel
SentinelPairs(ruleA, ruleB) ==
  {ab \in SameFieldPairs(ruleA, ruleB) :
     "CURRENT" \in {ruleA.actions[ab[1]].value, ruleB.actions[ab[2]].value}}

\* C18: conflicts are reported only between two distinct rules with the same
\* trigger: in every conflict ruleA stands earlier in the input list than
\* ruleB and trigger is the trigger of both; no rule conflicts with itself,
\* rules with different triggers give no conflict, and each unordered pair of
\* rules is compared once.
C18_SameTriggerPairsOnly ==
  RulesReturned
    => LET places == 1..Len(FetchedRules)
           conflicts == result.result.conflicts
       IN /\ \A k \in 1..Len(conflicts) :
                \E i, j \in places :
                   /\ i < j
                   /\ conflicts[k].ruleA = FetchedRules[i].id
                   /\ conflicts[k].ruleB = FetchedRules[j].id
                   /\ conflicts[k].trigger = FetchedRules[i].trigger
                   /\ conflicts[k].trigger = FetchedRules[j].trigger
          /\ \A i, j \in places :
                /\ i >= j => ConflictsOf(i, j) = << >>
                /\ FetchedRules[i].trigger # FetchedRules[j].trigger
                     => ConflictsOf(i, j) = << >>
                /\ (i < j /\ FetchedRules[i].trigger = FetchedRules[j].trigger)
                     => Len(ConflictsOf(i, j))
                          = Cardinality(DifferingPairs(FetchedRules[i], FetchedRules[j]))
                            + Cardinality(SentinelPairs(FetchedRules[i], FetchedRules[j]))

\* of three rules the first and the third share a trigger and conflict
C18_Witness ==
  /\ RulesReturned
  /\ Len(FetchedRules) = 3
  /\ FetchedRules[1].trigger = FetchedRules[3].trigger
  /\ FetchedRules[1].trigger # FetchedRules[2].trigger
  /\ result.result.conflicts # << >>
  /\ ConflictsOf(1, 3) = result.result.conflicts

\* the conflict types in a list of conflicts, in order
TypesOf(conflicts) == [k \in 1..Len(conflicts) |-> conflicts[k].conflictType]

\* how many conflicts of the type on the field the list holds
CountOf(conflicts, field, conflictType) ==
  Cardinality({k \in 1..Len(conflicts) :
                 conflicts[k].field = field /\ conflicts[k].conflictType = conflictType})

\* the pairs of actions among the given ones that write the field
OnField(pairs, ruleA, field) == {ab \in pairs : ruleA.actions[ab[1]].field = field}

\* C19: for two rules with the same trigger, every pair of actions, one from
\* each rule, on the same field gives one OVERWRITE conflict exactly when the
\* two values differ and, independently, one LOOP conflict exactly when one of
\* the values is "CURRENT": differing values with one "CURRENT" give OVERWRITE
\* then LOOP, both "CURRENT" a LOOP alone, equal other values nothing.
C19_OverwriteAndLoop ==
  RulesReturned
    => \A i, j \in 1..Len(FetchedRules) :
          (i < j /\ FetchedRules[i].trigger = FetchedRules[j].trigger)
            => LET ruleA == FetchedRules[i]
                   ruleB == FetchedRules[j]
                   reported == ConflictsOf(i, j)
               IN /\ \A field \in {"status", "assignee"} :
                        /\ CountOf(reported, field, "OVERWRITE")
                             = Cardinality(OnField(DifferingPairs(ruleA, ruleB), ruleA, field))
                        /\ CountOf(reported, field, "LOOP")
                             = Cardinality(OnField(SentinelPairs(ruleA, ruleB), ruleA, field))
                  /\ \A k \in 1..Len(reported) :
                        reported[k].conflictType \in {"OVERWRITE", "LOOP"}
                  /\ (Len(ruleA.actions) = 1 /\ Len(ruleB.actions) = 1
                       /\ ruleA.actions[1].field = ruleB.actions[1].field)
                      => LET valueA == ruleA.actions[1].value
                             valueB == ruleB.actions[1].value
                         IN TypesOf(reported) =
                              IF valueA = "CURRENT" /\ valueB = "CURRENT" THEN <<"LOOP">>
                              ELSE IF "CURRENT" \in {valueA, valueB}
                              THEN <<"OVERWRITE", "LOOP">>
                              ELSE IF valueA # valueB THEN <<"OVERWRITE">>
                              ELSE << >>

\* two rules with one trigger write "DONE" and "CURRENT" to one field
C19_Witness ==
  /\ RulesReturned
  /\ Len(FetchedRules) = 2
  /\ FetchedRules[1].trigger = FetchedRules[2].trigger
  /\ FetchedRules[1].actions = <<RuleAction("status", "DONE")>>
  /\ FetchedRules[2].actions = <<RuleAction("status", "CURRENT")>>
  /\ TypesOf(result.result.conflicts) = <<"OVERWRITE", "LOOP">>

\* --------------------------------------------------------------------------
\* computeRisk called directly
\* --------------------------------------------------------------------------

\* a list of n copies of the item
Filled(n, item) == [k \in 1..n |-> item]

\* graph findings with up to MaxFindings cycles and dead ends, none, one or
\* MaxFindings unreachable states, and a depth below, at and above 5
DrawnGraphAnalyses ==
  {[cycles |-> Filled(cycles, <<"A", "A">>),
    deadEnds |-> Filled(deadEnds, "B"),
    maxDepth |-> maxDepth,
    unreachableStates |-> Filled(unreachable, "C")] :
     cycles \in 0..MaxFindings, deadEnds \in 0..MaxFindings,
     unreachable \in {0, 1, MaxFindings}, maxDepth \in {1, 5, 6, 9}}

\* timing findings with up to MaxFindings + 2 bottlenecks
DrawnTimingAnalyses ==
  {[stateAverages |-> EmptyMap, bottlenecks |-> {ToString(k) : k \in 1..bottlenecks}] :
     bottlenecks \in 0..MaxFindings + 2}

\* conflict reports with up to 3 LOOP and up to MaxFindings OVERWRITE conflicts
DrawnConflictReports ==
  LET conflict(conflictType) ==
        Conflict(MockRules[1], MockRules[2], MockRules[1].actions[1], conflictType)
  IN {[conflicts |-> Filled(loops, conflict("LOOP"))
                       \o Filled(overwrites, conflict("OVERWRITE"))] :
        loops \in 0..3, overwrites \in 0..MaxFindings}

RiskCall(graph, timing, automation) ==
  [op |-> "computeRisk", graph |-> graph, timing |-> timing, automation |-> automation]

\* the calls with three analyses, and the calls with one of them missing
InitRisk ==
  /\ InitModules
  /\ call \in {RiskCall(graph, timing, automation) :
                 graph \in DrawnGraphAnalyses, timing \in DrawnTimingAnalyses,
                 automation \in DrawnConflictReports}
              \cup {RiskCall(NoValue, NoAnalysis, NoConflicts),
                    RiskCall(NoGraph, NoValue, NoConflicts),
                    RiskCall(NoGraph, NoAnalysis, NoValue)}
  /\ result = NotCalled

\* the call runs
ComputeRiskCalled ==
  /\ call.op = "computeRisk"
  /\ result = NotCalled
  /\ result' = ComputeRisk(call.graph, call.timing, call.automation)
  /\ UNCHANGED <<lastSeenState, stateTotals, stateCounts, outcome, accepted, timeline,
                 invocations, store, call>>

SpecRisk == InitRisk /\ [][ComputeRiskCalled]_vars

\* computeRisk has returned a score
RiskReturned ==
  call.op = "computeRisk" /\ result # NotCalled /\ result.code = "OK"

\* S: the structure signals of the call
StructureSignalsOfCall ==
  Len(call.graph.cycles) + Len(call.graph.deadEnds) + Len(call.graph.unreachableStates)
  + (IF call.graph.maxDepth > 5 THEN call.graph.maxDepth - 5 ELSE 0)

\* T: the timing signals of the call
TimingSignalsOfCall == Cardinality(call.timing.bottlenecks)

\* A: the automation signals of the call
AutomationSignalsOfCall ==
  LET conflicts == call.automation.conflicts
      loops == {k \in 1..Len(conflicts) : conflicts[k].conflictType = "LOOP"}
  IN 2 * Cardinality(loops) + (Len(conflicts) - Cardinality(loops))

\* C20: in hundredths, the overall score is
\* 5 * min(S, 10) + 6 * min(T, 5) + 4 * min(A, 5), that is
\* 0.5 * min(S/10, 1) + 0.3 * min(T/5, 1) + 0.2 * min(A/5, 1) to two decimals,
\* with S = |cycles| + |deadEnds| + |unreachable| + max(0, maxDepth - 5),
\* T = |bottlenecks| and A = 2 per LOOP conflict and 1 per other conflict; the
\* overall score and each component of the breakdown lie between 0 and 1.
C20_WeightedCappedScore ==
  RiskReturned
    => LET score == result.result
       IN /\ score.overallScore
               = 5 * Min(StructureSignalsOfCall, 10) + 6 * Min(TimingSignalsOfCall, 5)
                 + 4 * Min(AutomationSignalsOfCall, 5)
          /\ score.breakdown.structure = 10 * Min(StructureSignalsOfCall, 10)
          /\ score.breakdown.timing = 20 * Min(TimingSignalsOfCall, 5)
          /\ score.breakdown.automation = 20 * Min(AutomationSignalsOfCall, 5)
          /\ \A part \in {score.overallScore, score.breakdown.structure,
                          score.breakdown.timing, score.breakdown.automation} :
                part \in 0..100

\* the structure signals are over their cap, the others under theirs
C20_Witness ==
  /\ RiskReturned
  /\ StructureSignalsOfCall > 10
  /\ TimingSignalsOfCall = 2
  /\ AutomationSignalsOfCall = 3
  /\ result.result.overallScore = 74

\* the overall score of the call with one bottleneck more and the graph
\* findings and the conflicts as they are
OverallWithOneMoreBottleneck ==
  LET timing == [call.timing EXCEPT !.bottlenecks = @ \cup {"one more"}]
  IN ComputeRisk(call.graph, timing, call.automation).result.overallScore

\* C21: with the graph findings and the rule conflicts held fixed, the overall
\* score grows strictly with each bottleneck added from 0 up to 5 and stays
\* the same for every bottleneck added from 5 on.
C21_MonotonicInBottlenecks ==
  RiskReturned
    => IF TimingSignalsOfCall < 5
       THEN OverallWithOneMoreBottleneck > result.result.overallScore
       ELSE OverallWithOneMoreBottleneck = result.result.overallScore

\* the fifth bottleneck saturates the timing risk
C21_Witness ==
  /\ RiskReturned
  /\ TimingSignalsOfCall = 5
  /\ result.result.breakdown.timing = 100
  /\ OverallWithOneMoreBottleneck = result.result.overallScore

\* --------------------------------------------------------------------------
\* explainRisk called directly
\* --------------------------------------------------------------------------

ExplainCall(riskScore, analyses) ==
  [op |-> "explainRisk", riskScore |-> riskScore, analyses |-> analyses]

\* the calls the pipeline makes: the analyses drawn and the score computeRisk
\* gives them; and the calls with an argument missing
InitExplain ==
  /\ InitModules
  /\ call \in {ExplainCall(ComputeRisk(graph, timing, automation).result,
                           [graph |-> graph, timing |-> timing,
                            automation |-> automation]) :
                 graph \in DrawnGraphAnalyses, timing \in DrawnTimingAnalyses,
                 automation \in DrawnConflictReports}
              \cup {ExplainCall(NoValue, [graph |-> NoGraph, timing |-> NoAnalysis,
                                          automation |-> NoConflicts]),
                    ExplainCall(NoRisk, NoValue)}
  /\ result = NotCalled

\* the call runs
ExplainRiskCalled ==
  /\ call.op = "explainRisk"
  /\ result = NotCalled
  /\ result' = ExplainRisk(call.riskScore, call.analyses)
  /\ UNCHANGED <<lastSeenState, stateTotals, stateCounts, outcome, accepted, timeline,
                 invocations, store, call>>

SpecExplain == InitExplain /\ [][ExplainRiskCalled]_vars

\* explainRisk has returned an explanation
ExplainReturned ==
  call.op = "explainRisk" /\ result # NotCalled /\ result.code = "OK"

\* the kinds of the details, in order
KindsOf(details) == [k \in 1..Len(details) |-> details[k].kind]

\* the kinds of detail in the order they are to appear
DetailOrder ==
  <<"cycles", "deadEnds", "unreachableStates", "maxDepth", "bottlenecks",
    "loopConflicts", "overwriteConflicts">>

\* the analyses of the call have a finding of the kind
HasFinding(kind) ==
  LET graph == call.analyses.graph
      conflicts == call.analyses.automation.conflicts
      ofType(conflictType) ==
        \E k \in 1..Len(conflicts) : conflicts[k].conflictType = conflictType
  IN CASE kind = "cycles" -> graph.cycles # << >>
       [] kind = "deadEnds" -> graph.deadEnds # << >>
       [] kind = "unreachableStates" -> graph.unreachableStates # << >>
       [] kind = "maxDepth" -> graph.maxDepth > 5
       [] kind = "bottlenecks" -> call.analyses.timing.bottlenecks # {}
       [] kind = "loopConflicts" -> ofType("LOOP")
       [] kind = "overwriteConflicts" -> ofType("OVERWRITE")

\* no cycle, dead end or unreachable state, a depth of at most 5, no
\* bottleneck and no conflict
NothingFound ==
  /\ call.analyses.graph.cycles = << >>
  /\ call.analyses.graph.deadEnds = << >>
  /\ call.analyses.graph.unreachableStates = << >>
  /\ call.analyses.graph.maxDepth <= 5
  /\ call.analyses.timing.bottlenecks = {}
  /\ call.analyses.automation.conflicts = << >>

\* C22: explainRisk returns at least one detail: the "no issues detected"
\* placeholder alone exactly when nothing was found; otherwise no placeholder,
\* and one detail per kind of finding in the order cycles, dead ends,
\* unreachable states, depth, bottlenecks, loop conflicts, overwrite conflicts.
C22_DetailsNeverEmpty ==
  ExplainReturned
    => LET kinds == KindsOf(result.result.details)
       IN /\ Len(kinds) >= 1
          /\ kinds = <<"none">> <=> NothingFound
          /\ ~NothingFound
               => /\ "none" \notin Range(kinds)
                  /\ kinds = SelectSeq(DetailOrder, HasFinding)

\* nothing was found and the placeholder is the one detail
C22_Witness ==
  /\ ExplainReturned
  /\ NothingFound
  /\ KindsOf(result.result.details) = <<"none">>

\* --------------------------------------------------------------------------
\* simulateImprovement.  Scores are in hundredths, as computeRisk returns
\* them; the reduction and the unrounded potential score are in thousandths.
\* --------------------------------------------------------------------------

\* a number that is an integer; Infinity and -Infinity
Finite(n) == [finite |-> TRUE, value |-> n]

Infinite(sign) == [finite |-> FALSE, value |-> sign]

\* num / den lies halfway between two integers (den > 0)
Halfway(num, den) == (2 * num) % (2 * den) = den

\* The integer nearest to num / den (den > 0), as toFixed and Math.round give
\* it.  The double that stands for a value halfway between two integers lies
\* on either side of it, so both neighbours are results: tie says which.
Rounded(num, den, tie) ==
  IF Halfway(num, den)
  THEN (num \div den) + (IF tie = "up" THEN 1 ELSE 0)
  ELSE (2 * num + den) \div (2 * den)

DriverStructureFirst(breakdown) ==
  IF breakdown.structure >= breakdown.timing /\ breakdown.structure >= breakdown.automation
  THEN "structure"
  ELSE IF breakdown.timing >= breakdown.automation THEN "timing"
  ELSE "automation"

\* the branch taken: "timing >= structure && timing >= automation", else
\* "structure >= automation", else
Driver(breakdown) ==
  IF breakdown.timing >= breakdown.structure /\ breakdown.timing >= breakdown.automation
  THEN "timing"
  ELSE IF breakdown.structure >= breakdown.automation THEN "structure"
  ELSE "automation"

\* primaryAction as the branch assigns it
PrimaryAction(driver) ==
  CASE driver = "timing" -> "Resolve state bottlenecks (Module 4)"
    [] driver = "structure" -> "Fix structural cycles/dead-ends (Module 3)"
    [] driver = "automation" -> "De-conflict automation rules (Module 5)"

ReductionByHalf(driver, breakdown) == breakdown[driver] * 5

\* reductionFactor as the branch assigns it: timing * 0.5, structure * 0.4,
\* automation * 0.6
ReductionFactor(driver, breakdown) ==
  CASE driver = "timing" -> breakdown.timing * 5
    [] driver = "structure" -> breakdown.structure * 4
    [] driver = "automation" -> breakdown.automation * 6

PotentialScoreUnfloored(currentRisk) ==
  currentRisk.overallScore * 10
    - ReductionFactor(Driver(currentRisk.breakdown), currentRisk.breakdown)

\* Math.max(0.05, currentRisk.overallScore - reductionFactor), unrounded
PotentialScore(currentRisk) ==
  Max(50, currentRisk.overallScore * 10
            - ReductionFactor(Driver(currentRisk.breakdown), currentRisk.breakdown))

\* Math.round(((overallScore - potentialScore) / overallScore) * 100), and 0
\* in its place when it is NaN.  A division by 0 gives NaN for 0 / 0 and an
\* infinity otherwise, and Math.round keeps an infinity.
ImprovementPercentage(currentRisk, tie) ==
  LET difference == currentRisk.overallScore * 10 - PotentialScore(currentRisk)
  IN IF currentRisk.overallScore = 0
     THEN (IF difference = 0 THEN Finite(0)
           ELSE Infinite(IF difference < 0 THEN -1 ELSE 1))
     ELSE Finite(Rounded(difference * 100, currentRisk.overallScore * 10, tie))

NoPrediction ==
  [potentialScore |-> 0, improvementPercentage |-> Finite(0), primaryAction |-> ""]

\* simulateImprovement(currentRisk, explanation); ties says to which side the
\* two roundings go when they stand halfway.  Reading the breakdown of a
\* missing score throws a TypeError; the explanation is not read.
SimulateImprovement(currentRisk, explanation, ties) ==
  IF currentRisk = NoValue THEN [code |-> "TypeError", result |-> NoPrediction]
  ELSE [code |-> "OK",
        result |-> [potentialScore |-> Rounded(PotentialScore(currentRisk), 10, ties.score),
                    improvementPercentage |->
                      ImprovementPercentage(currentRisk, ties.percentage),
                    primaryAction |-> PrimaryAction(Driver(currentRisk.breakdown))]]

\* the risk scores drawn: every overall score from 0 to 1 by hundredths, and
\* components that are equal, ordered every way, and halved to a tie
DrawnRiskScores ==
  LET components == {0, 1, 10, 20, 25, 50, 80, 100}
  IN {[overallScore |-> overall,
       breakdown |-> [structure |-> structure, timing |-> timing,
                      automation |-> automation]] :
        overall \in 0..100, structure \in components, timing \in components,
        automation \in components}

SimulateCall(currentRisk, explanation) ==
  [op |-> "simulateImprovement", currentRisk |-> currentRisk,
   explanation |-> explanation]

InitSimulate ==
  /\ InitModules
  /\ call \in {SimulateCall(currentRisk, [summary |-> "", details |-> << >>]) :
                 currentRisk \in DrawnRiskScores \cup {NoValue}}
  /\ result = NotCalled

\* the call runs
SimulateImprovementCalled ==
  /\ call.op = "simulateImprovement"
  /\ result = NotCalled
  /\ \E score \in {"down", "up"}, percentage \in {"down", "up"} :
        result' = SimulateImprovement(call.currentRisk, call.explanation,
                                      [score |-> score, percentage |-> percentage])
  /\ UNCHANGED <<lastSeenState, stateTotals, stateCounts, outcome, accepted, timeline,
                 invocations, store, call>>

SpecSimulate == InitSimulate /\ [][SimulateImprovementCalled]_vars

\* simulateImprovement has returned a prediction
SimulateReturned ==
  call.op = "simulateImprovement" /\ result # NotCalled /\ result.code = "OK"

\* the component whose action the prediction names
NamedDriver ==
  CHOOSE driver \in {"timing", "structure", "automation"} :
     PrimaryAction(driver) = result.result.primaryAction

\* the largest component of the breakdown of the call
LargestComponent ==
  LET breakdown == call.currentRisk.breakdown
  IN CHOOSE largest \in {breakdown.timing, breakdown.structure, breakdown.automation} :
        /\ largest >= breakdown.timing
        /\ largest >= breakdown.structure
        /\ largest >= breakdown.automation

\* C23: the driver is the largest component of the breakdown, timing winning
\* a tie with structure or automation and structure a tie with automation,
\* and primaryAction is the action of that driver, never the default one.
C23_LargestComponentDrives ==
  SimulateReturned
    => LET breakdown == call.currentRisk.breakdown
       IN /\ result.result.primaryAction
               \in {PrimaryAction(driver) : driver \in {"timing", "structure", "automation"}}
          /\ result.result.primaryAction # "General workflow optimization"
          /\ breakdown[NamedDriver] = LargestComponent
          /\ breakdown.timing = LargestComponent => NamedDriver = "timing"
          /\ (breakdown.timing < LargestComponent /\ breakdown.structure = LargestComponent)
               => NamedDriver = "structure"

\* timing and structure tie above automation, and timing drives
C23_Witness ==
  /\ SimulateReturned
  /\ call.currentRisk.breakdown.timing = call.currentRisk.breakdown.structure
  /\ call.currentRisk.breakdown.timing > call.currentRisk.breakdown.automation
  /\ result.result.primaryAction = "Resolve state bottlenecks (Module 4)"

\* max(0.05, overall - f * c) in thousandths, c the component of the named
\* driver and f its share: 0.5 for timing, 0.4 for structure, 0.6 for
\* automation
FlooredReduction ==
  LET share == [timing |-> 5, structure |-> 4, automation |-> 6]
      reduced == call.currentRisk.overallScore * 10
                   - share[NamedDriver] * call.currentRisk.breakdown[NamedDriver]
  IN IF reduced > 50 THEN reduced ELSE 50

\* the breakdown and the overall score of the worked example
ExampleRisk ==
  [overallScore |-> 49,
   breakdown |-> [structure |-> 20, timing |-> 80, automation |-> 10]]

\* C24: potentialScore is max(0.05, overall - f * c) to two decimals, that
\* is a hundredth nearest to it; it is never below 0.05, and it is 0.09 for
\* the breakdown {structure 0.2, timing 0.8, automation 0.1} with overall 0.49.
C24_PotentialScoreFloored ==
  SimulateReturned
    => /\ 10 * result.result.potentialScore >= FlooredReduction - 5
       /\ 10 * result.result.potentialScore <= FlooredReduction + 5
       /\ result.result.potentialScore >= 5
       /\ call.currentRisk = ExampleRisk => result.result.potentialScore = 9

C24_Witness ==
  /\ SimulateReturned
  /\ call.currentRisk = ExampleRisk
  /\ result.result.potentialScore = 9
  /\ NamedDriver = "timing"

\* the returned percentage is an integer nearest to
\* (overall - potentialScore) / overall * 100, potentialScore as computed
\* before it is rounded
NearestPercentage ==
  LET overall == call.currentRisk.overallScore * 10
      percentage == result.result.improvementPercentage
  IN /\ percentage.finite
     /\ 2 * (percentage.value * overall - (overall - FlooredReduction) * 100) <= overall
     /\ 2 * ((overall - FlooredReduction) * 100 - percentage.value * overall) <= overall

\* C25: improvementPercentage is round((overall - potentialScore) / overall
\* * 100), and the division is guarded: with an overall score of 0 the
\* returned improvementPercentage is 0.
C25_GuardedPercentage ==
  SimulateReturned
    => IF call.currentRisk.overallScore = 0
       THEN result.result.improvementPercentage = Finite(0)
       ELSE NearestPercentage

\* What handleJiraWebhook goes on to store for the graph analysis that was
\* returned, with the timing analysis and the answer of the rule provider
\* given: the snapshots under snapshot:P1, none when the invocation fails.
SnapshotsAfter(timing, response) ==
  LET inv == [Idle EXCEPT !.pc = "awaitRules", !.projectId = "P1",
                          !.graphAnalysis = result.result,
                          !.timingAnalysis = timing, !.timingCode = "OK"]
      handled == HandleRules(EmptyMap, inv, response)
  IN IF handled.inv.pc = "done" THEN {handled.store[SnapshotKey("P1")]} ELSE {}

\* the pipeline at its quietest: no bottleneck, and no rule or the mock rules
QuietTimings == {NoAnalysis}

QuietRuleResponses == {Resolved(Array(<< >>))} \cup RuleResponses

\* C26: for a workflow with at least one state whose transitions reference
\* declared states only, analyzeGraph reports at least one cycle or at least
\* one dead end; so what handleJiraWebhook computes from it has a structure
\* risk of at least 0.1, an overall score of at least 0.05 and no "no issues
\* detected" placeholder.
C26_AlwaysACycleOrADeadEnd ==
  /\ (GraphDone /\ WellFormed /\ Closed(call.workflow)) => result.code = "OK"
  /\ GraphReturned
       => /\ Len(result.result.cycles) + Len(result.result.deadEnds) >= 1
          /\ \A timing \in QuietTimings, response \in QuietRuleResponses :
                \A snapshot \in SnapshotsAfter(timing, response) :
                   /\ snapshot.riskScore.breakdown.structure >= 10
                   /\ snapshot.riskScore.overallScore >= 5
                   /\ "none" \notin Range(KindsOf(snapshot.explanation.details))

\* a single state without a transition: one dead end, no cycle, and the
\* lowest scores the pipeline can store
C26_Witness ==
  /\ GraphReturned
  /\ call.workflow.states = <<"A">>
  /\ call.workflow.transitions = << >>
  /\ result.result.cycles = << >>
  /\ result.result.deadEnds = <<"A">>
  /\ \E snapshot \in SnapshotsAfter(NoAnalysis, Resolved(Array(<< >>))) :
        /\ snapshot.riskScore.breakdown.structure = 10
        /\ snapshot.riskScore.overallScore = 5

\* C27 as stated: for every risk score with its overall score and its
\* components in [0, 1], potentialScore is at most overallScore and
\* improvementPercentage is an integer in 0..100.
C27_NeverWorse ==
  SimulateReturned
    => /\ result.result.potentialScore <= call.currentRisk.overallScore
       /\ result.result.improvementPercentage.finite
       /\ result.result.improvementPercentage.value \in 0..100

\* C27, amended: potentialScore is at most the larger of overallScore and the
\* floor 0.05.  For an overall score of 0.05 or more it is at most
\* overallScore and improvementPercentage is an integer in 0..100; for an
\* overall score below 0.05 the projection is the floor, above the current
\* score, and improvementPercentage is negative: a negative integer, and
\* -Infinity for an overall score of 0.
C27_NeverWorseAboveFloor ==
  SimulateReturned
    => LET overall == call.currentRisk.overallScore
           percentage == result.result.improvementPercentage
       IN /\ result.result.potentialScore <= Max(overall, 5)
          /\ overall >= 5
               => /\ result.result.potentialScore <= overall
                  /\ percentage.finite
                  /\ percentage.value \in 0..100
          /\ overall < 5
               => /\ result.result.potentialScore = 5
                  /\ percentage.value < 0
                  /\ percentage.finite <=> overall > 0

\* an overall score of 0.02 is projected to the floor
C27_Witness ==
  /\ SimulateReturned
  /\ call.currentRisk.overallScore = 2
  /\ result.result.potentialScore = 5
  /\ result.result.improvementPercentage = Finite(-150)

\* --------------------------------------------------------------------------
\* What a rejected invocation of handleJiraWebhook leaves behind
\* --------------------------------------------------------------------------

SamplesIn(agg, state) ==
  IF state \in DOMAIN agg.stateCounts THEN agg.stateCounts[state] ELSE 0

SecondsIn(agg, state) ==
  IF state \in DOMAIN agg.stateTotals THEN agg.stateTotals[state] ELSE 0

\* every invocation called so far has rejected
AllRejected ==
  /\ InvocationsAt("failed") # {}
  /\ \A w \in Invocations : invocations[w].pc \in {"idle", "failed"}

\* C28 as stated: an invocation that fails, at whatever stage, leaves the
\* timing aggregates and the store as they were before it, so that while
\* every invocation has failed the aggregates and the store are those of a
\* freshly loaded module, and an event delivered again after the failure of
\* its first delivery leaves the aggregates one delivery would have left.
C28_FailedWebhookRecordsNothing ==
  /\ AllRejected =>
       /\ DOMAIN lastSeenState = {}
       /\ DOMAIN stateTotals = {} /\ DOMAIN stateCounts = {}
       /\ DOMAIN store = {}
  /\ InvocationsAt("idle") # {} =>
       \A rawEvent \in RawEvents, response \in JiraResponses :
         LET first == HandleStart(CurrentAgg, rawEvent)
             again == HandleStart(first.agg, rawEvent)
         IN (/\ first.inv.pc = "awaitWorkflow"
             /\ HandleWorkflow(first.agg, first.inv, response).pc = "failed")
            => /\ first.agg = CurrentAgg
               /\ again.agg = HandleStart(CurrentAgg, rawEvent).agg

\* C28, amended: an invocation that fails in ingestEvent or in updateTiming
\* changes nothing, and one that fails later saves no snapshot; but the
\* update updateTiming made before the first await stays when a later stage
\* fails, so the same event delivered again is accepted again (its timestamp
\* is not earlier than the one recorded) and adds a sample of zero seconds
\* to the state the issue entered.
C28_FailureKeepsTimingUpdate ==
  /\ AllRejected => DOMAIN store = {}
  /\ \A i \in IssueIds : timeline[i] # << >> => i \in DOMAIN lastSeenState
  /\ InvocationsAt("idle") # {} =>
       \A rawEvent \in RawEvents :
         LET first == HandleStart(CurrentAgg, rawEvent)
             again == HandleStart(first.agg, rawEvent)
             entered == first.timed.toState
         IN /\ first.inv.pc = "failed" => first.agg = CurrentAgg
            /\ first.timed # NoEvent =>
                 /\ first.inv.pc = "awaitWorkflow"
                 /\ first.agg # CurrentAgg
                 /\ first.agg.lastSeenState[first.timed.issueId].state = entered
                 /\ again.inv.pc = "awaitWorkflow"
                 /\ again.timed = first.timed
                 /\ again.agg.lastSeenState = first.agg.lastSeenState
                 /\ SamplesIn(again.agg, entered) = SamplesIn(first.agg, entered) + 1
                 /\ SecondsIn(again.agg, entered) = SecondsIn(first.agg, entered)
                 /\ \A response \in JiraResponses :
                      HandleWorkflow(first.agg, first.inv, response).pc
                        \in {"failed", "awaitRules"}

\* the first delivery of a transition failed after updateTiming, the same
\* event was delivered again, and the state entered has a sample of zero
\* seconds although the issue made one transition
C28_Witness ==
  /\ invocations["w1"].pc = "failed"
  /\ invocations["w2"].pc = "awaitWorkflow"
  /\ invocations["w3"].pc = "idle"
  /\ Len(timeline["I1"]) = 2
  /\ timeline["I1"][1] = timeline["I1"][2]
  /\ timeline["I1"][1].state = "REVIEW"
  /\ stateCounts = [s \in {"REVIEW"} |-> 1]
  /\ stateTotals = [s \in {"REVIEW"} |-> 0]
  /\ DOMAIN store = {}

\* --------------------------------------------------------------------------
\* Invocations of handleJiraWebhook that overlap
\* --------------------------------------------------------------------------

\* the timing analysis the handler would use now: what computeBottlenecks
\* returns on the aggregates, the empty analysis when it has no data
TimingAnalysisNow(projectId) ==
  LET computed == ComputeBottlenecksOn(CurrentAgg, projectId) IN
  IF computed.code = "OK" THEN computed.result
  ELSE [stateAverages |-> EmptyMap, bottlenecks |-> {}]

\* the timing component computeRisk gives a timing analysis, in hundredths
TimingRiskOf(timingAnalysis) ==
  ComputeRisk(NoGraph, timingAnalysis, NoConflicts).result.breakdown.timing

\* the invocations called after w
CalledAfter(w) ==
  {InvocationOrder[j] : j \in {j \in 1..Len(InvocationOrder) :
     \E k \in 1..j - 1 : InvocationOrder[k] = w}}

\* C29 as stated: once every invocation has finished, the snapshot stored
\* for the project carries the timing risk of the aggregates with every
\* transition the invocations recorded (all transitions here are of issue
\* I1 of project P1, so that the aggregates are those of one project).
C29_NewestAggregatesStored ==
  (/\ \A w \in Invocations : invocations[w].pc = "done"
   /\ timeline["I2"] = << >>
   /\ SnapshotKey("P1") \in DOMAIN store)
  => store[SnapshotKey("P1")].riskScore.breakdown.timing
       = TimingRiskOf(TimingAnalysisNow("P1"))

\* C29, amended: the snapshot stored is the one of the invocation that
\* saves last, whatever is stored already.  An invocation takes its timing
\* analysis from the aggregates when its workflow fetch settles and carries
\* it unchanged to its save: the analysis holds every transition recorded
\* until then, and while no invocation called after it has started it is
\* the analysis of the present aggregates; transitions recorded later are
\* not in the snapshot it saves.
C29_LastSaveWins ==
  /\ \A w \in InvocationsAt("awaitWorkflow") : \A response \in JiraResponses :
       LET next == HandleWorkflow(CurrentAgg, invocations[w], response) IN
       next.pc = "awaitRules" =>
         next.timingAnalysis = TimingAnalysisNow(invocations[w].projectId)
  /\ \A w \in InvocationsAt("awaitRules") :
       /\ (\A v \in CalledAfter(w) : invocations[v].pc = "idle") =>
            invocations[w].timingAnalysis = TimingAnalysisNow(invocations[w].projectId)
       /\ \A response \in RuleResponses :
            LET inv == invocations[w]
                key == SnapshotKey(inv.projectId)
                next == HandleRules(store, inv, response)
            IN next.inv.pc = "done" =>
                 /\ next.store[key] = HandleRules(EmptyMap, inv, response).store[key]
                 /\ next.store[key].riskScore.breakdown.timing
                      = TimingRiskOf(inv.timingAnalysis)

\* w3, called last, has saved a snapshot with the bottleneck the aggregates
\* show; w2 still holds the analysis it took before w3 recorded its
\* transition, and its save replaces the newer snapshot by one without the
\* bottleneck
C29_Witness ==
  /\ invocations["w3"].pc = "done"
  /\ invocations["w2"].pc = "awaitRules"
  /\ invocations["w2"].projectId = "P1"
  /\ invocations["w2"].timingAnalysis.bottlenecks = {}
  /\ timeline["I2"] = << >>
  /\ TimingAnalysisNow("P1").bottlenecks # {}
  /\ SnapshotKey("P1") \in DOMAIN store
  /\ store[SnapshotKey("P1")].riskScore.breakdown.timing
       = TimingRiskOf(TimingAnalysisNow("P1"))
  /\ \E response \in RuleResponses :
       LET next == HandleRules(store, invocations["w2"], response) IN
       /\ next.inv.pc = "done"
       /\ next.store[SnapshotKey("P1")].riskScore.breakdown.timing
            < store[SnapshotKey("P1")].riskScore.breakdown.timing

\* --------------------------------------------------------------------------
\* The timing aggregates only grow
\* --------------------------------------------------------------------------

\* the maps after hold every key of the maps before, with a count and a
\* total that are not smaller
GrowsFrom(before, after) ==
  /\ DOMAIN before.lastSeenState \subseteq DOMAIN after.lastSeenState
  /\ DOMAIN before.stateCounts \subseteq DOMAIN after.stateCounts
  /\ DOMAIN before.stateTotals \subseteq DOMAIN after.stateTotals
  /\ \A s \in DOMAIN before.stateCounts : after.stateCounts[s] >= before.stateCounts[s]
  /\ \A s \in DOMAIN before.stateTotals : after.stateTotals[s] >= before.stateTotals[s]

\* whatever event updateTiming is called with next: a first event of an
\* issue adds no sample, every other accepted event adds exactly one, and a
\* rejected event changes nothing
SamplesCounted ==
  /\ IntSum(stateCounts, DOMAIN stateCounts)
       = EventCount - Cardinality(DOMAIN lastSeenState)
  /\ \A s \in DOMAIN stateTotals : stateTotals[s] >= 0
  /\ \A event \in TimingEvents :
       LET r == UpdateTimingOn(CurrentAgg, event)
           samples == IntSum(r.agg.stateCounts, DOMAIN r.agg.stateCounts)
                      - IntSum(stateCounts, DOMAIN stateCounts)
       IN /\ GrowsFrom(CurrentAgg, r.agg)
          /\ r.code # "OK" => r.agg = CurrentAgg
          /\ r.code = "OK" =>
               samples = IF event.issueId \in DOMAIN lastSeenState THEN 1 ELSE 0

\* C30: in every reachable state the counts of all states add up to the
\* number of updateTiming calls that returned minus the number of issues
\* seen, and no total is negative; and over every step, of updateTiming or
\* of computeBottlenecks, no count or total becomes smaller and no state or
\* issue loses its entry.
C30_AggregatesOnlyGrow ==
  /\ []SamplesCounted
  /\ [][GrowsFrom(CurrentAgg, CurrentAgg')]_vars

\* three calls returned, two of them the first of their issue: one sample,
\* and the next event may add a shorter one to the same state
C30_Witness ==
  /\ EventCount = 3
  /\ DOMAIN lastSeenState = IssueIds
  /\ IntSum(stateCounts, DOMAIN stateCounts) = 1
  /\ \E s \in DOMAIN stateTotals : stateTotals[s] > 0
  /\ \E event \in TimingEvents :
       LET r == UpdateTimingOn(CurrentAgg, event) IN
       /\ r.code = "OK"
       /\ \E s \in DOMAIN stateTotals :
            /\ r.agg.stateCounts[s] = stateCounts[s] + 1
            /\ r.agg.stateTotals[s] = stateTotals[s]

====
